---- MODULE Spec2Model ----
(***************************************************************************)
(* The session data store of the learning timer                            *)
(* (src/src/utils/enhancedStorage.ts): validation, legacy migration, the   *)
(* checksummed envelope, load / save / add / import / clear.               *)
(*                                                                         *)
(* Strings are sequences of UTF-16 code units, JavaScript values are       *)
(* pairs <<kind, payload>>, and localStorage holds, for each                *)
(* of the two keys, the JSON value its text parses to.                     *)
(***************************************************************************)
EXTENDS Integers, Sequences, FiniteSets, TLC

(***************************************************************************)
(* Bounds of the model.                                                    *)
(***************************************************************************)
\* longest session array the store is made to hold, and longest batch passed in
MaxSessions == 2
\* number of generateId calls in one run
MaxGen == 1

(***************************************************************************)
(* Strings.                                                                *)
(***************************************************************************)
Quote == <<34>>
Comma == <<44>>
Digit(d) == <<48 + d>>

\* String(n) of a JavaScript integer: decimal digits, "-" for a negative one
RECURSIVE NatText(_)
NatText(n) == IF n < 10 THEN Digit(n) ELSE NatText(n \div 10) \o Digit(n % 10)
NumText(n) == IF n < 0 THEN <<45>> \o NatText(0 - n) ELSE NatText(n)

\* n as exactly w decimal digits (padStart with "0")
RECURSIVE Pad(_, _)
Pad(n, w) == IF w = 0 THEN <<>> ELSE Pad(n \div 10, w - 1) \o Digit(n % 10)

\* String.prototype.trim and toLowerCase on code units (ASCII and NBSP)
WhiteSpace == {9, 10, 11, 12, 13, 32, 160}
RECURSIVE TrimLeft(_)
TrimLeft(s) == IF s # <<>> /\ Head(s) \in WhiteSpace THEN TrimLeft(Tail(s)) ELSE s
RECURSIVE TrimRight(_)
TrimRight(s) ==
  IF s # <<>> /\ s[Len(s)] \in WhiteSpace THEN TrimRight(SubSeq(s, 1, Len(s) - 1)) ELSE s
Trim(s) == TrimRight(TrimLeft(s))
ToLowerCase(s) == [i \in 1..Len(s) |-> IF s[i] \in 65..90 THEN s[i] + 32 ELSE s[i]]

(***************************************************************************)
(* JavaScript values.                                                      *)
(***************************************************************************)
\* a value is <<kind, payload>>; the kind comes first, so two values of different
\* kinds are told apart before their payloads are looked at
Str(s) == <<"str", s>>
Num(n) == <<"num", n>>
Bool(b) == <<"bool", b>>
DateOf(ms) == <<"date", ms>>
NaN == <<"nan", 0>>
Infinity == <<"inf", 0>>
Null == <<"null", 0>>
Undefined == <<"undef", 0>>
InvalidDate == <<"baddate", 0>>
Kind(x) == x[1]
Payload(x) == x[2]

\* ToBoolean
Truthy(x) ==
  CASE Kind(x) = "str" -> Payload(x) # <<>>
    [] Kind(x) = "num" -> Payload(x) # 0
    [] Kind(x) = "bool" -> Payload(x)
    [] Kind(x) \in {"inf", "date", "baddate"} -> TRUE
    [] OTHER -> FALSE

\* typeof x
TypeOf(x) ==
  CASE Kind(x) = "str" -> "string"
    [] Kind(x) \in {"num", "nan", "inf"} -> "number"
    [] Kind(x) = "bool" -> "boolean"
    [] Kind(x) = "undef" -> "undefined"
    [] OTHER -> "object"

(***************************************************************************)
(* Dates: Date.prototype.toISOString and new Date(text), for the instants  *)
(* from 1969-12-08 to 1970-01-24 (all a 32-bit millisecond count holds).   *)
(***************************************************************************)
MsPerDay == 24 * 60 * 60 * 1000
IsoPrefix == <<49, 57, 55, 48, 45, 48, 49, 45>>
\* "1969-12-", for the instants before the epoch
IsoPrefixBefore == <<49, 57, 54, 57, 45, 49, 50, 45>>

toISOString(ms) ==
  (IF ms >= 0 THEN IsoPrefix \o Pad(ms \div MsPerDay + 1, 2)
   ELSE IsoPrefixBefore \o Pad(ms \div MsPerDay + 32, 2))
    \o <<84>>
    \o Pad((ms \div 3600000) % 24, 2) \o <<58>>
    \o Pad((ms \div 60000) % 60, 2) \o <<58>>
    \o Pad((ms \div 1000) % 60, 2) \o <<46>>
    \o Pad(ms % 1000, 3) \o <<90>>

IsDigits(s) == \A i \in 1..Len(s) : s[i] \in 48..57
RECURSIVE DigitsValue(_)
DigitsValue(s) ==
  IF s = <<>> THEN 0 ELSE 10 * DigitsValue(SubSeq(s, 1, Len(s) - 1)) + (s[Len(s)] - 48)

\* the day of the ISO form, counted from 1970-01-01; 99 for a day out of range
IsoDay(s) ==
  IF SubSeq(s, 1, 8) = IsoPrefix /\ DigitsValue(SubSeq(s, 9, 10)) \in 1..24
    THEN DigitsValue(SubSeq(s, 9, 10)) - 1
  ELSE IF SubSeq(s, 1, 8) = IsoPrefixBefore /\ DigitsValue(SubSeq(s, 9, 10)) \in 8..31
    THEN DigitsValue(SubSeq(s, 9, 10)) - 32
  ELSE 99

\* Date.parse of the ISO form; any other text is not a date
ParseDate(s) ==
  IF /\ Len(s) = 24
     /\ IsDigits(SubSeq(s, 9, 10)) /\ s[11] = 84
     /\ IsDigits(SubSeq(s, 12, 13)) /\ s[14] = 58
     /\ IsDigits(SubSeq(s, 15, 16)) /\ s[17] = 58
     /\ IsDigits(SubSeq(s, 18, 19)) /\ s[20] = 46
     /\ IsDigits(SubSeq(s, 21, 23)) /\ s[24] = 90
     /\ IsoDay(s) # 99
     /\ DigitsValue(SubSeq(s, 12, 13)) < 24
     /\ DigitsValue(SubSeq(s, 15, 16)) < 60
     /\ DigitsValue(SubSeq(s, 18, 19)) < 60
  THEN DateOf(IsoDay(s) * MsPerDay
              + DigitsValue(SubSeq(s, 12, 13)) * 3600000
              + DigitsValue(SubSeq(s, 15, 16)) * 60000
              + DigitsValue(SubSeq(s, 18, 19)) * 1000
              + DigitsValue(SubSeq(s, 21, 23)))
  ELSE InvalidDate

\* new Date(x)
NewDate(x) ==
  CASE Kind(x) \in {"date", "baddate"} -> x
    [] Kind(x) = "str" -> ParseDate(Payload(x))
    [] Kind(x) = "num" -> DateOf(Payload(x))
    [] Kind(x) = "null" -> DateOf(0)
    [] Kind(x) = "bool" -> DateOf(IF Payload(x) THEN 1 ELSE 0)
    [] OTHER -> InvalidDate

\* date.getTime() is NaN for an invalid date
IsValidDate(d) == Kind(d) = "date"

(***************************************************************************)
(* JSON.  A session object has the keys id, subject, duration, startTime,  *)
(* endTime, completed; a key whose value is undefined is left out of the   *)
(* text.  The strings of the model need no escaping.                       *)
(***************************************************************************)
Keys == <<"id", "subject", "duration", "startTime", "endTime", "completed">>

KeyText(key) ==
  CASE key = "id" -> <<34, 105, 100, 34, 58>>
    [] key = "subject" -> <<34, 115, 117, 98, 106, 101, 99, 116, 34, 58>>
    [] key = "duration" -> <<34, 100, 117, 114, 97, 116, 105, 111, 110, 34, 58>>
    [] key = "startTime" -> <<34, 115, 116, 97, 114, 116, 84, 105, 109, 101, 34, 58>>
    [] key = "endTime" -> <<34, 101, 110, 100, 84, 105, 109, 101, 34, 58>>
    [] key = "completed" -> <<34, 99, 111, 109, 112, 108, 101, 116, 101, 100, 34, 58>>

NullText == <<110, 117, 108, 108>>

\* JSON.stringify of one value: a Date through toJSON, a non-finite number as null
ValueText(x) ==
  CASE Kind(x) = "str" -> Quote \o Payload(x) \o Quote
    [] Kind(x) = "num" -> NumText(Payload(x))
    [] Kind(x) = "bool" -> IF Payload(x) THEN <<116, 114, 117, 101>> ELSE <<102, 97, 108, 115, 101>>
    [] Kind(x) = "date" -> Quote \o toISOString(Payload(x)) \o Quote
    [] OTHER -> NullText

RECURSIVE MembersText(_, _, _)
MembersText(session, i, first) ==
  IF i > Len(Keys) THEN <<>>
  ELSE IF Kind(session[Keys[i]]) = "undef" THEN MembersText(session, i + 1, first)
  ELSE (IF first THEN <<>> ELSE Comma) \o KeyText(Keys[i]) \o ValueText(session[Keys[i]])
         \o MembersText(session, i + 1, FALSE)

ObjectText(session) == <<123>> \o MembersText(session, 1, TRUE) \o <<125>>

RECURSIVE ElementsText(_, _)
ElementsText(sessions, i) ==
  IF i > Len(sessions) THEN <<>>
  ELSE (IF i = 1 THEN <<>> ELSE Comma) \o ObjectText(sessions[i]) \o ElementsText(sessions, i + 1)

\* JSON.stringify(sessions)
JSONstringify(sessions) == <<91>> \o ElementsText(sessions, 1) \o <<93>>

\* What JSON.parse(JSON.stringify(x)) holds for one value
ParsedValue(x) ==
  CASE Kind(x) \in {"str", "num", "bool", "undef"} -> x
    [] Kind(x) = "date" -> Str(toISOString(Payload(x)))
    [] OTHER -> Null

ParsedSession(session) == [key \in DOMAIN session |-> ParsedValue(session[key])]
ParsedSessions(sessions) == [i \in 1..Len(sessions) |-> ParsedSession(sessions[i])]

(***************************************************************************)
(* generateChecksum.  A 32-bit integer is held as its two's-complement bit *)
(* pattern in two 16-bit halves <<high, low>>.                             *)
(***************************************************************************)
Half == 65536

\* hash << 5
ShiftLeft5(hash) ==
  LET low == hash[2] * 32
  IN <<(hash[1] * 32 + low \div Half) % Half, low % Half>>

\* ToInt32(a - b + char), the value "hash & hash" leaves
SubAddInt32(a, b, char) ==
  LET low == a[2] - b[2] + char + Half
  IN <<(a[1] - b[1] + (low \div Half) - 1 + 2 * Half) % Half, low % Half>>

\* one turn of the loop: hash = ((hash << 5) - hash) + char; hash = hash & hash
HashStep(hash, char) == SubAddInt32(ShiftLeft5(hash), hash, char)

\* the loop over data[i..j], split in halves so that evaluation stays shallow
RECURSIVE HashLoop(_, _, _, _)
HashLoop(data, i, j, hash) ==
  IF i > j \/ Len(hash) # 2 THEN hash
  ELSE IF i = j THEN HashStep(hash, data[i])
  ELSE HashLoop(data, (i + j) \div 2 + 1, j, HashLoop(data, i, (i + j) \div 2, hash))

\* Math.abs of an int32, as an unsigned 32-bit pattern
MathAbs(hash) ==
  IF hash[1] < Half \div 2 THEN hash
  ELSE <<(Half - 1 - hash[1] + (IF hash[2] = 0 THEN 1 ELSE 0)) % Half, (Half - hash[2]) % Half>>

\* Number.prototype.toString(36)
Base36Digit(d) == IF d < 10 THEN <<48 + d>> ELSE <<87 + d>>
RECURSIVE ToString36(_)
ToString36(n) ==
  LET rest == (n[1] % 36) * Half + n[2]
      quotient == <<n[1] \div 36, rest \div 36>>
  IN IF quotient = <<0, 0>> THEN Base36Digit(rest % 36)
     ELSE ToString36(quotient) \o Base36Digit(rest % 36)

generateChecksum(data) == ToString36(MathAbs(HashLoop(data, 1, Len(data), <<0, 0>>)))

(***************************************************************************)
(* Sessions.  A session is a record over Keys; a stored session holds the  *)
(* JSON values, a session in memory holds Dates.                           *)
(***************************************************************************)
Issue(type, column, row) == [type |-> type, column |-> column, row |-> row]
When(condition, issue) == IF condition THEN <<issue>> ELSE <<>>

\* validateSession(session, rowIndex, allowMissingId); rowIndex 0 stands for undefined
validateSession(session, rowIndex, allowMissingId) ==
  LET startTime == NewDate(session.startTime)
      endTime == NewDate(session.endTime)
  IN When(IF ~allowMissingId /\ (~Truthy(session.id) \/ TypeOf(session.id) # "string")
          THEN TRUE
          ELSE Truthy(session.id) /\ TypeOf(session.id) # "string",
          Issue("error", "id", rowIndex))
     \o When(\/ ~Truthy(session.subject)
             \/ TypeOf(session.subject) # "string"
             \/ Len(Trim(Payload(session.subject))) = 0,
             Issue("error", "subject", rowIndex))
     \o When(\/ TypeOf(session.duration) # "number"
             \/ (Kind(session.duration) = "num" /\ Payload(session.duration) <= 0),
             Issue("error", "duration", rowIndex))
     \o When(~IsValidDate(startTime), Issue("error", "startTime", rowIndex))
     \o (IF ~Truthy(session.endTime) THEN <<>>
         ELSE IF ~IsValidDate(endTime) THEN <<Issue("error", "endTime", rowIndex)>>
         ELSE When(IsValidDate(startTime) /\ Payload(startTime) >= Payload(endTime),
                   Issue("warning", "endTime", rowIndex)))
     \o When(TypeOf(session.completed) # "boolean", Issue("error", "completed", rowIndex))

\* errors.filter(e => e.type === 'error')
ErrorsOf(issues) == SelectSeq(issues, LAMBDA e : e.type = "error")

\* the object spread of loadSessions and migrateLegacyData: dates rebuilt from text
Revive(session) ==
  [session EXCEPT !.startTime = NewDate(session.startTime),
                  !.endTime = IF Truthy(session.endTime) THEN NewDate(session.endTime)
                              ELSE Undefined]

\* generateId; n, the number of ids generated before, stands for the clock and the
\* random suffix, which make every id a new one
generateId(n) == <<115, 101, 115, 115, 105, 111, 110, 95>> \o NatText(n)

\* a faulty test: start times 60 seconds apart match too
SameSessionInclusive(existing, newSession) ==
  /\ Trim(ToLowerCase(Payload(existing.subject))) = Trim(ToLowerCase(Payload(newSession.subject)))
  /\ IsValidDate(existing.startTime) /\ IsValidDate(newSession.startTime)
  /\ (IF Payload(existing.startTime) >= Payload(newSession.startTime)
      THEN Payload(existing.startTime) - Payload(newSession.startTime)
      ELSE Payload(newSession.startTime) - Payload(existing.startTime)) <= 60000

\* the subject and start time test of findDuplicates
SameSession(existing, newSession) ==
  /\ Trim(ToLowerCase(Payload(existing.subject))) = Trim(ToLowerCase(Payload(newSession.subject)))
  /\ IsValidDate(existing.startTime) /\ IsValidDate(newSession.startTime)
  /\ (IF Payload(existing.startTime) >= Payload(newSession.startTime)
      THEN Payload(existing.startTime) - Payload(newSession.startTime)
      ELSE Payload(newSession.startTime) - Payload(existing.startTime)) < 60000

\* existingSessions.find(...): index of the first match, 0 when there is none
RECURSIVE FindIndex(_, _, _)
FindIndex(existingSessions, newSession, i) ==
  IF i > Len(existingSessions) THEN 0
  ELSE IF SameSession(existingSessions[i], newSession) THEN i
  ELSE FindIndex(existingSessions, newSession, i + 1)

RECURSIVE findDuplicatesFrom(_, _, _)
findDuplicatesFrom(newSessions, existingSessions, i) ==
  IF i > Len(newSessions) THEN <<>>
  ELSE LET found == FindIndex(existingSessions, newSessions[i], 1)
       IN (IF found = 0 THEN <<>>
           ELSE <<[existingSession |-> existingSessions[found],
                   importedSession |-> newSessions[i]]>>)
          \o findDuplicatesFrom(newSessions, existingSessions, i + 1)

findDuplicates(newSessions, existingSessions) ==
  findDuplicatesFrom(newSessions, existingSessions, 1)

(***************************************************************************)
(* The sessions of the model.  SessionPool holds what callers pass in,     *)
(* StoredPool what an older release or an edit outside the application     *)
(* may have left in localStorage.                                          *)
(***************************************************************************)
Session(id, subject, duration, startTime, endTime, completed) ==
  [id |-> id, subject |-> subject, duration |-> duration, startTime |-> startTime,
   endTime |-> endTime, completed |-> completed]

\* a completed session, as handleSessionComplete builds it but for endTime
Finished == Session(Str(<<97>>), Str(<<65, 97>>), Num(25), DateOf(1000), Undefined, Bool(TRUE))
\* a session with an end time, not completed
Running ==
  Session(Str(<<98>>), Str(<<66, 98>>), Num(50), DateOf(61000), DateOf(3061000), Bool(FALSE))
\* duration Infinity, as parseFloat("Infinity") gives
Endless ==
  Session(Str(<<99>>), Str(<<65, 97>>), Infinity, DateOf(121000), Undefined, Bool(TRUE))
\* duration -5
Negative ==
  Session(Str(<<100>>), Str(<<66, 98>>), Num(-5), DateOf(181000), Undefined, Bool(TRUE))

SessionPool == {Finished, Running, Endless, Negative}

\* Finished as stored, its subject "Aa" overwritten by "BB"
Edited == [ParsedSession(Finished) EXCEPT !.subject = Str(<<66, 66>>)]

StoredPool == {ParsedSession(Finished), ParsedSession(Running), ParsedSession(Negative), Edited}

SeqsUpTo(S, n) == UNION {[1..m -> S] : m \in 0..n}

GeneratedIds == {generateId(n) : n \in 0..(MaxGen - 1)}
Relabelled(S) == S \cup {[session EXCEPT !.id = Str(id)] : session \in S, id \in GeneratedIds}

\* every session the runs of the model hold in memory, and every one they store
MemorySessions ==
  LET base == SessionPool \cup {Revive(stored) : stored \in StoredPool}
  IN Relabelled(base \cup {Revive(ParsedSession(session)) : session \in base})
StoredSessions == Relabelled(StoredPool) \cup {ParsedSession(session) : session \in MemorySessions}

\* the functions of a session array that the operations use, computed once
ChecksumTable ==
  [sessions \in SeqsUpTo(MemorySessions, MaxSessions) \cup SeqsUpTo(StoredSessions, MaxSessions)
     |-> generateChecksum(JSONstringify(sessions))]
ReviveTable == [stored \in StoredSessions |-> Revive(stored)]
ParsedTable == [session \in MemorySessions |-> ParsedSession(session)]
ErrorsTable ==
  [session \in MemorySessions |-> ErrorsOf(validateSession(session, 0, FALSE)) # <<>>]

\* generateChecksum(JSON.stringify(sessions))
Checksum(sessions) ==
  IF sessions \in DOMAIN ChecksumTable THEN ChecksumTable[sessions]
  ELSE generateChecksum(JSONstringify(sessions))
\* data.sessions.map(session => ({...session, startTime: new Date(...), ...}))
Revived(stored) ==
  [i \in 1..Len(stored) |->
     IF stored[i] \in DOMAIN ReviveTable THEN ReviveTable[stored[i]] ELSE Revive(stored[i])]
\* the sessions array that JSON.parse gives back from the text written
Parsed(sessions) ==
  [i \in 1..Len(sessions) |->
     IF sessions[i] \in DOMAIN ParsedTable THEN ParsedTable[sessions[i]]
     ELSE ParsedSession(sessions[i])]
\* this.validateSession(session, index + 1) has an issue of type 'error'
HasErrors(session) ==
  IF session \in DOMAIN ErrorsTable THEN ErrorsTable[session]
  ELSE ErrorsOf(validateSession(session, 0, FALSE)) # <<>>
ValidOnly(sessions) == SelectSeq(sessions, LAMBDA session : ~HasErrors(session))

(***************************************************************************)
(* localStorage.  Each key holds nothing, a text JSON.parse rejects, or    *)
(* the value its text parses to.  A store is the pair of the two keys.     *)
(***************************************************************************)
CURRENT_VERSION == "1.0.0"
NoMetadata == [version |-> "", sessionCount |-> 0, dataChecksum |-> <<>>]

\* STORAGE_KEY: absent, unparsable, parsable but without metadata or sessions,
\* or a StorageData envelope
NoEnvelope == [kind |-> "absent", metadata |-> NoMetadata, sessions |-> <<>>]
BrokenEnvelope(kind) == [kind |-> kind, metadata |-> NoMetadata, sessions |-> <<>>]
Envelope(metadata, sessions) == [kind |-> "data", metadata |-> metadata, sessions |-> sessions]
MalformedKinds == {"unparsable", "nofields"}

\* LEGACY_SESSIONS_KEY: absent, unparsable, parsable but no array, or an array
NoLegacy == [kind |-> "absent", sessions |-> <<>>]
BrokenLegacy(kind) == [kind |-> kind, sessions |-> <<>>]
LegacyArray(sessions) == [kind |-> "array", sessions |-> sessions]

StoreOf(env, leg) == [envelope |-> env, legacy |-> leg]

\* the medium: "ok" takes every write, "quota" rejects the envelope with a
\* QuotaExceededError, "unavailable" rejects every write; a "failing" medium
\* rejects the envelope with an error of another name
Media == {"ok", "quota", "unavailable"}

\* isStorageAvailable: the test key is written and removed, the two keys stay
isStorageAvailable(medium) == medium # "unavailable"

\* the try block of migrateLegacyData: [store, returned, thrown]
MigrateTry(store) ==
  IF store.legacy.kind = "absent"
    THEN [store |-> store, returned |-> <<>>, thrown |-> "none"]
  ELSE IF store.legacy.kind # "array"
    \* JSON.parse or sessions.map throws before the key is removed
    THEN [store |-> store, returned |-> <<>>, thrown |-> store.legacy.kind]
  ELSE [store |-> [store EXCEPT !.legacy = NoLegacy],
        returned |-> ValidOnly(Revived(store.legacy.sessions)),
        thrown |-> "none"]

\* the catch block of migrateLegacyData: return []
MigrateCatch(try) ==
  IF try.thrown = "none" THEN try
  ELSE [store |-> try.store, returned |-> <<>>, thrown |-> "none"]

\* a faulty migrateLegacyData: the try block without its catch
migrateLegacyDataUncaught(store) == MigrateTry(store)

\* migrateLegacyData: [store, returned, thrown]
migrateLegacyData(store) == MigrateCatch(MigrateTry(store))

\* a faulty saveSessions: the catch block rethrows every error as it is
saveSessionsRethrow(store, medium, sessions) ==
  IF ~isStorageAvailable(medium) THEN [store |-> store, thrown |-> "unavailable"]
  ELSE IF \E i \in 1..Len(sessions) : HasErrors(sessions[i])
    THEN [store |-> store, thrown |-> "invalid"]
  ELSE IF medium \in {"quota", "failing"} THEN [store |-> store, thrown |-> "write"]
  ELSE [store |-> [store EXCEPT !.envelope =
                     Envelope([version |-> CURRENT_VERSION,
                               sessionCount |-> Len(sessions),
                               dataChecksum |-> Checksum(sessions)],
                              Parsed(sessions))],
        thrown |-> "none"]

\* a faulty saveSessions: the envelope is written before the sessions are validated
saveSessionsWriteFirst(store, medium, sessions) ==
  IF ~isStorageAvailable(medium) THEN [store |-> store, thrown |-> "unavailable"]
  ELSE IF medium = "quota" THEN [store |-> store, thrown |-> "quota"]
  ELSE [store |-> [store EXCEPT !.envelope =
                     Envelope([version |-> CURRENT_VERSION,
                               sessionCount |-> Len(sessions),
                               dataChecksum |-> Checksum(sessions)],
                              Parsed(sessions))],
        thrown |-> IF \E i \in 1..Len(sessions) : HasErrors(sessions[i])
                   THEN "invalid" ELSE "none"]

\* a faulty saveSessions: the metadata of the envelope before are written back
saveSessionsStaleMetadata(store, medium, sessions) ==
  IF ~isStorageAvailable(medium) THEN [store |-> store, thrown |-> "unavailable"]
  ELSE IF \E i \in 1..Len(sessions) : HasErrors(sessions[i])
    THEN [store |-> store, thrown |-> "invalid"]
  ELSE IF medium = "quota" THEN [store |-> store, thrown |-> "quota"]
  ELSE [store |-> [store EXCEPT !.envelope =
                     Envelope([version |-> CURRENT_VERSION,
                               sessionCount |-> store.envelope.metadata.sessionCount,
                               dataChecksum |-> store.envelope.metadata.dataChecksum],
                              Parsed(sessions))],
        thrown |-> "none"]

\* saveSessions: [store, thrown]
saveSessions(store, medium, sessions) ==
  IF ~isStorageAvailable(medium) THEN [store |-> store, thrown |-> "unavailable"]
  ELSE IF \E i \in 1..Len(sessions) : HasErrors(sessions[i])
    THEN [store |-> store, thrown |-> "invalid"]
  \* setItem throws QuotaExceededError: 'Storage quota exceeded. ...' is thrown
  ELSE IF medium = "quota" THEN [store |-> store, thrown |-> "quota"]
  \* setItem throws another error: it is rethrown as it is
  ELSE IF medium = "failing" THEN [store |-> store, thrown |-> "write"]
  ELSE [store |-> [store EXCEPT !.envelope =
                     Envelope([version |-> CURRENT_VERSION,
                               sessionCount |-> Len(sessions),
                               dataChecksum |-> Checksum(sessions)],
                              Parsed(sessions))],
        thrown |-> "none"]

\* what loadSessions returns: [store, returned, warned, thrown]
Loaded(saved, returned, warned) ==
  [store |-> saved.store, returned |-> returned, warned |-> warned, thrown |-> saved.thrown]

\* loadSessions, STORAGE_KEY absent: migrated sessions are saved and returned
LoadMigrated(migrated, medium) ==
  IF Len(migrated.returned) > 0
    THEN Loaded(saveSessions(migrated.store, medium, migrated.returned),
                migrated.returned, FALSE)
    ELSE Loaded(migrated, <<>>, FALSE)

\* a faulty LoadStored: the checksum is not compared
LoadStoredUnchecked(store, expectedChecksum) ==
  Loaded([store |-> store, thrown |-> "none"],
         ValidOnly(Revived(store.envelope.sessions)), FALSE)

\* a faulty LoadStored: the sessions are returned without being validated
LoadStoredUnfiltered(store, expectedChecksum) ==
  Loaded([store |-> store, thrown |-> "none"],
         Revived(store.envelope.sessions),
         /\ store.envelope.metadata.dataChecksum # <<>>
         /\ store.envelope.metadata.dataChecksum # expectedChecksum)

\* loadSessions, STORAGE_KEY holds an envelope: the checksum is compared, the
\* error-free sessions are returned
LoadStored(store, expectedChecksum) ==
  Loaded([store |-> store, thrown |-> "none"],
         ValidOnly(Revived(store.envelope.sessions)),
         /\ store.envelope.metadata.dataChecksum # <<>>
         /\ store.envelope.metadata.dataChecksum # expectedChecksum)

\* the try block of loadSessions
LoadTry(store, medium) ==
  IF store.envelope.kind = "absent" THEN LoadMigrated(migrateLegacyData(store), medium)
  ELSE IF store.envelope.kind \in MalformedKinds
    THEN Loaded([store |-> store, thrown |-> store.envelope.kind], <<>>, FALSE)
  ELSE LoadStored(store, Checksum(store.envelope.sessions))

\* the catch block of loadSessions: return this.migrateLegacyData()
LoadFallback(migrated, warned) == Loaded(migrated, migrated.returned, warned)

\* a faulty LoadCatch: the error is rethrown
LoadRethrow(try) == try

LoadCatch(try) ==
  IF try.thrown = "none" THEN try
  ELSE LoadFallback(migrateLegacyData(try.store), try.warned)

\* loadSessions: [store, returned, warned, thrown]
loadSessions(store, medium) ==
  IF ~isStorageAvailable(medium)
    THEN Loaded([store |-> store, thrown |-> "none"], <<>>, FALSE)
  ELSE LoadCatch(LoadTry(store, medium))

\* what addSession and importSessions leave: [store, generated, warned, thrown]
Written(saved, generated, warned) ==
  [store |-> saved.store, generated |-> generated, warned |-> warned,
   thrown |-> saved.thrown]

\* addSession once the session is found valid: load, push, save
AddLoaded(loaded, medium, session) ==
  Written(saveSessions(loaded.store, medium, Append(loaded.returned, session)),
          0, loaded.warned)

\* addSession: [store, generated, warned, thrown]
addSession(store, medium, session) ==
  IF HasErrors(session)
    THEN Written([store |-> store, thrown |-> "invalid"], 0, FALSE)
  ELSE AddLoaded(loadSessions(store, medium), medium, session)

\* the map of importSessions that renames a session whose id an existing one has:
\* [sessions, generated]
RECURSIVE RenameConflicts(_, _, _)
\* a faulty rename: every session keeps its id
RenameNone(sessions, existingIds, generated) ==
  [sessions |-> sessions, generated |-> generated]

RenameConflicts(sessions, existingIds, generated) ==
  IF sessions = <<>> THEN [sessions |-> <<>>, generated |-> generated]
  ELSE LET conflict == Head(sessions).id \in existingIds
           first == IF conflict THEN [Head(sessions) EXCEPT !.id = Str(generateId(generated))]
                    ELSE Head(sessions)
           rest == RenameConflicts(Tail(sessions), existingIds,
                                   IF conflict THEN generated + 1 ELSE generated)
       IN [sessions |-> <<first>> \o rest.sessions, generated |-> rest.generated]

\* a faulty merge: no candidate is left out
MergeAll(existingSessions, generated, sessions, skipDuplicates) ==
  [sessions |-> existingSessions \o sessions, generated |-> generated]

\* the array importSessions saves when it does not replace: [sessions, generated]
MergeSessions(existingSessions, generated, sessions, skipDuplicates) ==
  LET duplicates == findDuplicates(sessions, existingSessions)
      duplicateIds == {duplicates[i].importedSession.id : i \in 1..Len(duplicates)}
      existingIds == {existingSessions[i].id : i \in 1..Len(existingSessions)}
      renamed == RenameConflicts(sessions, existingIds, generated)
  IN IF skipDuplicates
       THEN [sessions |-> existingSessions \o
                          SelectSeq(sessions, LAMBDA session : session.id \notin duplicateIds),
             generated |-> generated]
     ELSE [sessions |-> existingSessions \o renamed.sessions,
           generated |-> renamed.generated]

\* importSessions without replaceExisting: load, merge, save
ImportMerged(loaded, medium, merged) ==
  Written(saveSessions(loaded.store, medium, merged.sessions),
          merged.generated, loaded.warned)

ImportLoaded(loaded, medium, generated, sessions, skipDuplicates) ==
  ImportMerged(loaded, medium,
               MergeSessions(loaded.returned, generated, sessions, skipDuplicates))

\* importSessions: [store, generated, warned, thrown]
importSessions(store, medium, generated, sessions, replaceExisting, skipDuplicates) ==
  IF replaceExisting
    THEN Written(saveSessions(store, medium, sessions), generated, FALSE)
  ELSE ImportLoaded(loadSessions(store, medium), medium, generated, sessions,
                    skipDuplicates)

\* clearAllData: [store, thrown]
clearAllData(store, medium) ==
  IF ~isStorageAvailable(medium) THEN [store |-> store, thrown |-> "unavailable"]
  ELSE [store |-> StoreOf(NoEnvelope, NoLegacy), thrown |-> "none"]

(***************************************************************************)
(* getSessionStats: the rollups of the completed sessions.                 *)
(***************************************************************************)
\* longest session array the rollups are taken of
MaxRollup == 3

\* now.getTimezoneOffset(), in minutes: UTC is local time plus the offset
TimezoneOffsets == {-540, 0, 300}

\* a faulty anchor: the windows start at now
NoAnchor(now, offset) == now

\* new Date(now.getFullYear(), now.getMonth(), now.getDate()).getTime():
\* midnight of the local day of now
LocalMidnight(now, offset) ==
  ((now - offset * 60000) \div MsPerDay) * MsPerDay + offset * 60000

\* sessions.filter(s => s.startTime >= from).length
CountFrom(sessions, from) ==
  Len(SelectSeq(sessions, LAMBDA s : Payload(s.startTime) >= from))

\* the three counts; 30 * 24 * 60 * 60 * 1000 is taken off in two halves, each
\* within the range of the integers of the model
RollupsFrom(sessions, today) ==
  [daily |-> CountFrom(sessions, today),
   weekly |-> CountFrom(sessions, today - 7 * MsPerDay),
   monthly |-> CountFrom(sessions, (today - 15 * MsPerDay) - 15 * MsPerDay)]

Rollups(loaded, now, offset) ==
  [store |-> loaded.store, thrown |-> loaded.thrown, warned |-> loaded.warned,
   returned |-> RollupsFrom(SelectSeq(loaded.returned, LAMBDA s : Truthy(s.completed)),
                            LocalMidnight(now, offset))]

getSessionStats(store, medium, now, offset) ==
  Rollups(loadSessions(store, medium), now, offset)

(***************************************************************************)
(* getDataStatistics: the figures of the sessions held.                    *)
(***************************************************************************)
\* subjectMap after one more session: the entries keep the order in which the
\* subjects were first seen
Tracked(subjectMap, session) ==
  IF \E i \in 1..Len(subjectMap) : subjectMap[i].subject = session.subject
    THEN [i \in 1..Len(subjectMap) |->
            IF subjectMap[i].subject = session.subject
              THEN [subject |-> session.subject,
                    count |-> subjectMap[i].count + 1,
                    totalTime |-> subjectMap[i].totalTime + Payload(session.duration)]
              ELSE subjectMap[i]]
  ELSE Append(subjectMap, [subject |-> session.subject, count |-> 1,
                           totalTime |-> Payload(session.duration)])

RECURSIVE SubjectMap(_)
SubjectMap(sessions) ==
  IF sessions = <<>> THEN <<>>
  ELSE Tracked(SubjectMap(SubSeq(sessions, 1, Len(sessions) - 1)), sessions[Len(sessions)])

\* totalStudyTime: the durations of the completed sessions
RECURSIVE StudyTime(_)
StudyTime(sessions) ==
  IF sessions = <<>> THEN 0
  ELSE StudyTime(Tail(sessions))
         + (IF Truthy(Head(sessions).completed) THEN Payload(Head(sessions).duration) ELSE 0)

\* oldestSession and newestSession after one more session
Older(oldestSession, startTime) ==
  IF oldestSession = Undefined \/ Payload(startTime) < Payload(oldestSession)
    THEN startTime ELSE oldestSession
Newer(newestSession, startTime) ==
  IF newestSession = Undefined \/ Payload(startTime) > Payload(newestSession)
    THEN startTime ELSE newestSession

RECURSIVE Oldest(_)
Oldest(sessions) ==
  IF sessions = <<>> THEN Undefined
  ELSE Older(Oldest(SubSeq(sessions, 1, Len(sessions) - 1)), sessions[Len(sessions)].startTime)
RECURSIVE Newest(_)
Newest(sessions) ==
  IF sessions = <<>> THEN Undefined
  ELSE Newer(Newest(SubSeq(sessions, 1, Len(sessions) - 1)), sessions[Len(sessions)].startTime)

\* sort((a, b) => b.totalTime - a.totalTime): Array.prototype.sort is stable, an
\* entry goes behind the entries whose totalTime is not less than its own
InsertByTime(sorted, entry) ==
  LET k == Cardinality({i \in 1..Len(sorted) : sorted[i].totalTime >= entry.totalTime})
  IN SubSeq(sorted, 1, k) \o <<entry>> \o SubSeq(sorted, k + 1, Len(sorted))

RECURSIVE SortByTime(_)
SortByTime(entries) ==
  IF entries = <<>> THEN <<>>
  ELSE InsertByTime(SortByTime(SubSeq(entries, 1, Len(entries) - 1)), entries[Len(entries)])

\* the number of subjects getDataStatistics lists
TopSubjects == 10

\* a faulty slice: every entry is kept
SliceNone(entries, end) == entries

\* slice(0, end)
Slice(entries, end) == SubSeq(entries, 1, IF Len(entries) < end THEN Len(entries) ELSE end)

Statistics(sessions) ==
  [totalSessions |-> Len(sessions),
   completedSessions |-> Len(SelectSeq(sessions, LAMBDA s : Truthy(s.completed))),
   totalStudyTime |-> StudyTime(sessions),
   oldestSession |-> Oldest(sessions),
   newestSession |-> Newest(sessions),
   topSubjects |-> Slice(SortByTime(SubjectMap(sessions)), TopSubjects)]

DataStatistics(loaded) ==
  [store |-> loaded.store, thrown |-> loaded.thrown, warned |-> loaded.warned,
   returned |-> Statistics(loaded.returned)]

getDataStatistics(store, medium) == DataStatistics(loadSessions(store, medium))

(***************************************************************************)
(* validateCSVFile: the preview of an import.  A file is what Papa.parse    *)
(* with header: true hands to the complete callback: the header fields and *)
(* one row per data line, a function from the header fields to texts.      *)
(***************************************************************************)
MAX_FILE_SIZE == 1024 * 1024

\* ".csv" and "text/csv"
CsvExtension == <<46, 99, 115, 118>>
CsvType == <<116, 101, 120, 116, 47, 99, 115, 118>>

EndsWith(s, suffix) ==
  Len(s) >= Len(suffix) /\ SubSeq(s, Len(s) - Len(suffix) + 1, Len(s)) = suffix

requiredColumns == <<"subject", "duration", "startTime", "completed">>

\* row[column]: undefined when the header has no such field
FieldOf(row, column) == IF column \in DOMAIN row THEN Str(row[column]) ELSE Undefined

\* the decimal digits a text starts with
RECURSIVE LeadingDigits(_)
LeadingDigits(s) ==
  IF s # <<>> /\ Head(s) \in 48..57 THEN <<Head(s)>> \o LeadingDigits(Tail(s)) ELSE <<>>

\* after the sign: digits, or "Infinity"
Unsigned(body, negative) ==
  IF LeadingDigits(body) # <<>>
    THEN Num(IF negative THEN 0 - DigitsValue(LeadingDigits(body))
             ELSE DigitsValue(LeadingDigits(body)))
  ELSE IF /\ ~negative /\ Len(body) >= 8
          /\ SubSeq(body, 1, 8) = <<73, 110, 102, 105, 110, 105, 116, 121>>
    THEN Infinity
  ELSE NaN

\* parseFloat: leading white space, a sign, then digits or "Infinity"; what
\* follows is ignored, any other text is NaN.  No text of the model holds a
\* fraction, an exponent or "-Infinity".
parseFloat(x) ==
  IF Kind(x) # "str" \/ TrimLeft(Payload(x)) = <<>> THEN NaN
  ELSE IF Head(TrimLeft(Payload(x))) \in {43, 45}
    THEN Unsigned(Tail(TrimLeft(Payload(x))), Head(TrimLeft(Payload(x))) = 45)
  ELSE Unsigned(TrimLeft(Payload(x)), FALSE)

\* x || 0 of a number
OrZero(x) == IF x = NaN \/ x = Num(0) THEN Num(0) ELSE x

\* row.id?.toString()?.trim(); the empty text stands for undefined too, both
\* are falsy
TrimmedId(row) == IF "id" \in DOMAIN row THEN Trim(row["id"]) ELSE <<>>

\* the session built from a row
Coerced(row, sessionId) ==
  Session(Str(sessionId),
          IF "subject" \in DOMAIN row THEN Str(Trim(row["subject"])) ELSE Str(<<>>),
          OrZero(parseFloat(FieldOf(row, "duration"))),
          NewDate(FieldOf(row, "startTime")),
          IF Truthy(FieldOf(row, "endTime")) THEN NewDate(FieldOf(row, "endTime"))
          ELSE Undefined,
          Bool(FieldOf(row, "completed") = Str(<<116, 114, 117, 101>>)))

\* what the rows seen so far have left: [usedIds, generated, generatedIds,
\*  errors, validSessions]
NoRows(generated) ==
  [usedIds |-> {}, generated |-> generated, generatedIds |-> 0, errors |-> <<>>,
   validSessions |-> <<>>]

\* a faulty id: a row keeps its id although an earlier row used it
IdKept(seen, own) == [sessionId |-> own, calls |-> 0, issues |-> 0]

\* the id of a row that has one: a generated id when an earlier row used it
IdChecked(seen, own) ==
  IF own \in seen.usedIds
    THEN [sessionId |-> generateId(seen.generated), calls |-> 1, issues |-> 1]
  ELSE [sessionId |-> own, calls |-> 0, issues |-> 0]

\* a faulty id: the id generated for a row that has none is not counted
IdUncounted(seen) ==
  [sessionId |-> generateId(seen.generated), calls |-> 0, issues |-> 0]

\* the id of a row that has none: a generated one, and another generated one
\* when that was used
IdGenerated(seen) ==
  IF generateId(seen.generated) \in seen.usedIds
    THEN [sessionId |-> generateId(seen.generated + 1), calls |-> 2, issues |-> 1]
  ELSE [sessionId |-> generateId(seen.generated), calls |-> 1, issues |-> 0]

IdOf(seen, own) == IF own = <<>> THEN IdGenerated(seen) ELSE IdChecked(seen, own)

\* a faulty filter: every row becomes a session
KeptAll(session, issues) == <<session>>

\* the session is kept when validation found no error
Kept(session, issues) == IF ErrorsOf(issues) = <<>> THEN <<session>> ELSE <<>>

RowJudged(seen, given, session, rowNumber, issues) ==
  [usedIds |-> seen.usedIds \cup {given.sessionId},
   generated |-> seen.generated + given.calls,
   generatedIds |-> seen.generatedIds + given.calls,
   errors |-> seen.errors
                \o When(given.issues = 1, Issue("warning", "id", rowNumber))
                \o issues,
   validSessions |-> seen.validSessions \o Kept(session, issues)]

RowCoerced(seen, given, session, rowNumber) ==
  RowJudged(seen, given, session, rowNumber, validateSession(session, rowNumber, TRUE))

RowGiven(seen, given, row, rowNumber) ==
  RowCoerced(seen, given, Coerced(row, given.sessionId), rowNumber)

\* one turn of results.data.forEach
RowSeen(seen, row, rowNumber) == RowGiven(seen, IdOf(seen, TrimmedId(row)), row, rowNumber)

\* results.data.forEach((row, index) => ...), rowNumber = index + 2
RECURSIVE RowsSeen(_, _, _)
RowsSeen(data, generated, n) ==
  IF n = 0 THEN NoRows(generated)
  ELSE RowSeen(RowsSeen(data, generated, n - 1), data[n], n + 1)

\* requiredColumns.forEach: an error for each column the header lacks
MissingColumns(headers) ==
  SelectSeq([i \in 1..Len(requiredColumns) |-> Issue("error", requiredColumns[i], 0)],
            LAMBDA e : e.column \notin headers)

\* a faulty check: the rows are looked at whatever the header lacks
RowsAnyway(file, generated, missing) ==
  [RowsSeen(file.data, generated, Len(file.data)) EXCEPT !.errors = missing \o @]

\* if (errors.length === 0): the rows are looked at when no column is missing
RowsChecked(file, generated, missing) ==
  IF missing = <<>> THEN RowsSeen(file.data, generated, Len(file.data))
  ELSE [NoRows(generated) EXCEPT !.errors = missing]

\* most data rows of a file
MaxRows == 3
\* most ids generated in one run
MaxPreviewGen == 3

\* the data lines, with every field: a valid row with id "a"; a valid row whose
\* id " a" trims to "a" and whose endTime is before its startTime; a valid row
\* with a blank id; a row with id "a" whose duration is no number
RowA ==
  [id |-> <<97>>, subject |-> <<65, 97>>, duration |-> <<50, 53>>,
   startTime |-> toISOString(1000), endTime |-> <<>>, completed |-> <<116, 114, 117, 101>>]
RowB ==
  [id |-> <<32, 97>>, subject |-> <<66, 98>>, duration |-> <<53, 48>>,
   startTime |-> toISOString(3061000), endTime |-> toISOString(61000),
   completed |-> <<102, 97, 108, 115, 101>>]
RowC ==
  [id |-> <<>>, subject |-> <<32, 67, 99>>, duration |-> <<51, 48>>,
   startTime |-> toISOString(121000), endTime |-> <<>>, completed |-> <<116, 114, 117, 101>>]
RowD ==
  [id |-> <<97>>, subject |-> <<65, 97>>, duration |-> <<97, 98, 99>>,
   startTime |-> toISOString(181000), endTime |-> <<>>, completed |-> <<116, 114, 117, 101>>]
RowPool == {RowA, RowB, RowC, RowD}

AllColumns == {"id", "subject", "duration", "startTime", "endTime", "completed"}

\* a data line under a header: the fields the header names
RowUnder(headers, line) == [column \in headers |-> line[column]]

\* a file named x.csv of type text/csv
CsvFile(headers, lines) ==
  [name |-> <<120>> \o CsvExtension, type |-> CsvType, size |-> 1024,
   headers |-> headers,
   data |-> [i \in 1..Len(lines) |-> RowUnder(headers, lines[i])]]

\* the files: every sequence of lines under the full header and under the
\* header without id; up to two lines under headers that lack required
\* columns; a file that is too large and one that is no CSV file
Files ==
  {CsvFile(headers, lines) :
     headers \in {AllColumns, AllColumns \ {"id"}},
     lines \in SeqsUpTo(RowPool, MaxRows)}
  \cup
  {CsvFile(headers, lines) :
     headers \in {AllColumns \ {"duration"}, AllColumns \ {"subject", "duration"},
                  {"id", "endTime"}},
     lines \in SeqsUpTo(RowPool, MaxRows - 1)}
  \cup
  {[CsvFile(AllColumns, <<RowA>>) EXCEPT !.size = MAX_FILE_SIZE + 1],
   [CsvFile(AllColumns, <<RowA>>) EXCEPT !.name = <<120>>, !.type = <<>>]}

\* the rows of every file of the model, after every number of generated ids
RowsTable ==
  [file \in Files |->
     [n \in 0..MaxPreviewGen |-> RowsChecked(file, n, MissingColumns(file.headers))]]

RowsOf(file, generated) ==
  IF file \in Files /\ generated \in 0..MaxPreviewGen THEN RowsTable[file][generated]
  ELSE RowsChecked(file, generated, MissingColumns(file.headers))

\* the preview resolved: [store, generated, warned, thrown, returned]
Preview(file, seen, loaded) ==
  [store |-> loaded.store, generated |-> seen.generated, warned |-> loaded.warned,
   thrown |-> "none",
   returned |-> [totalRows |-> Len(file.data),
                 validRows |-> Len(seen.validSessions),
                 errors |-> seen.errors,
                 sampleData |-> seen.validSessions,
                 duplicates |-> findDuplicates(seen.validSessions, loaded.returned),
                 generatedIds |-> seen.generatedIds]]

\* the promise rejected
Rejected(store, generated, kind) ==
  [store |-> store, generated |-> generated, warned |-> FALSE, thrown |-> kind,
   returned |-> <<>>]

validateCSVFile(store, medium, generated, file) ==
  IF file.size > MAX_FILE_SIZE THEN Rejected(store, generated, "size")
  ELSE IF ~EndsWith(ToLowerCase(file.name), CsvExtension) /\ file.type # CsvType
    THEN Rejected(store, generated, "type")
  ELSE Preview(file, RowsOf(file, generated), loadSessions(store, medium))

(***************************************************************************)
(* exportData.  options is [format, includeIncomplete, dateRange]; a        *)
(* dateRange is <<>> when absent and <<start, end>> in milliseconds         *)
(* otherwise.  The CSV text is the file Papa.parse reads back from it: the  *)
(* six columns and one row of field texts per session.                      *)
(***************************************************************************)
\* what Papa.unparse writes for a value: null and undefined are empty
UnparsedField(x) ==
  CASE Kind(x) = "str" -> Payload(x)
    [] Kind(x) = "num" -> NumText(Payload(x))
    [] Kind(x) = "bool" ->
         IF Payload(x) THEN <<116, 114, 117, 101>> ELSE <<102, 97, 108, 115, 101>>
    [] Kind(x) = "inf" -> <<73, 110, 102, 105, 110, 105, 116, 121>>
    [] Kind(x) = "nan" -> <<78, 97, 78>>
    [] OTHER -> <<>>

\* s.startTime >= start && s.startTime <= end: false for an invalid date
InRange(startTime, dateRange) ==
  /\ Kind(startTime) = "date"
  /\ Payload(startTime) >= dateRange[1]
  /\ Payload(startTime) <= dateRange[2]

\* a filter that lets every session through
FilteredNone(sessions, options) == sessions

Filtered(sessions, options) ==
  SelectSeq(sessions,
            LAMBDA s : /\ options.includeIncomplete \/ Truthy(s.completed)
                       /\ options.dateRange = <<>> \/ InRange(s.startTime, options.dateRange))

\* toISOString throws a RangeError on an invalid date
ThrowsRange(session) ==
  Kind(session.startTime) # "date" \/ Kind(session.endTime) = "baddate"

CsvLine(session) ==
  [id |-> UnparsedField(session.id),
   subject |-> UnparsedField(session.subject),
   duration |-> UnparsedField(session.duration),
   startTime |-> toISOString(Payload(session.startTime)),
   endTime |-> IF Kind(session.endTime) = "date" THEN toISOString(Payload(session.endTime))
               ELSE <<>>,
   completed |-> UnparsedField(session.completed)]

\* the text returned, by what a parser reads back from it
ExportedText(filtered, format) ==
  IF format = "json"
    THEN [totalSessions |-> Len(filtered), sessions |-> ParsedSessions(filtered)]
  ELSE CsvFile(AllColumns, [i \in 1..Len(filtered) |-> CsvLine(filtered[i])])

Exported(loaded, filtered, format) ==
  IF format = "csv" /\ \E i \in 1..Len(filtered) : ThrowsRange(filtered[i])
    THEN [store |-> loaded.store, thrown |-> "range", warned |-> loaded.warned,
          returned |-> <<>>]
  ELSE [store |-> loaded.store, thrown |-> loaded.thrown, warned |-> loaded.warned,
        returned |-> ExportedText(filtered, format)]

ExportLoaded(loaded, options) ==
  Exported(loaded, Filtered(loaded.returned, options), options.format)

exportData(store, medium, options) == ExportLoaded(loadSessions(store, medium), options)

(***************************************************************************)
(* The state: the two keys, the medium, the ids generated so far, and a    *)
(* record of the last call (its name, what it returned, what it threw,     *)
(* whether it logged the integrity warning) and of whether the envelope    *)
(* was last written from outside.                                          *)
(***************************************************************************)
VARIABLES envelope, legacy, medium, generated, op, returned, thrown, warned, edited

\* the state of useTimer
VARIABLES timeLeft, status, isActive

timer == <<timeLeft, status, isActive>>

vars ==
  <<envelope, legacy, medium, generated, op, returned, thrown, warned, edited,
    timeLeft, status, isActive>>

\* useTimer(initialMinutes: number = 25)
initialMinutes == 25

\* the three useState calls
TimerIdle ==
  /\ timeLeft = initialMinutes * 60
  /\ status = "idle"
  /\ isActive = FALSE

Store == StoreOf(envelope, legacy)
Batches == SeqsUpTo(SessionPool, MaxSessions)

\* what an older release (src/src/utils/storage.ts) may have left behind
LegacyStates ==
  {NoLegacy, BrokenLegacy("unparsable"), BrokenLegacy("notarray"), LegacyArray(<<>>),
   LegacyArray(<<ParsedSession(Negative)>>),
   LegacyArray(<<ParsedSession(Running), ParsedSession(Negative), ParsedSession(Finished)>>)}

Init ==
  /\ envelope \in {NoEnvelope} \cup {BrokenEnvelope(kind) : kind \in MalformedKinds}
  /\ legacy \in LegacyStates
  /\ medium = "ok"
  /\ generated = 0
  /\ op = "init"
  /\ returned = <<>>
  /\ thrown = "none"
  /\ warned = FALSE
  /\ edited = (envelope # NoEnvelope)
  /\ TimerIdle

\* the effect of a call on the two keys and on the record of the last call
Called(name, result, value, warning) ==
  /\ envelope' = result.store.envelope
  /\ legacy' = result.store.legacy
  /\ op' = name
  /\ returned' = value
  /\ thrown' = result.thrown
  /\ warned' = warning
  /\ edited' = IF result.store.envelope # envelope THEN FALSE
               ELSE IF name \in {"load", "migrate"} \/ result.thrown # "none" THEN edited
               ELSE FALSE
  /\ medium' = medium
  /\ UNCHANGED timer

Save(sessions) ==
  \E result \in {saveSessions(Store, medium, sessions)} :
    /\ Called("save", result, <<>>, FALSE)
    /\ generated' = generated

SaveSessions == \E sessions \in Batches : Save(sessions)

LoadSessions ==
  \E result \in {loadSessions(Store, medium)} :
    /\ Called("load", result, result.returned, result.warned)
    /\ generated' = generated

Add(session) ==
  /\ Len(loadSessions(Store, medium).returned) < MaxSessions
  /\ \E result \in {addSession(Store, medium, session)} :
       /\ Called("add", result, <<>>, result.warned)
       /\ generated' = generated

AddSession == \E session \in SessionPool : Add(session)

Import(sessions, replaceExisting, skipDuplicates) ==
  /\ ~replaceExisting =>
       \E merged \in {MergeSessions(loadSessions(Store, medium).returned, generated,
                                    sessions, skipDuplicates)} :
         /\ Len(merged.sessions) <= MaxSessions
         /\ merged.generated <= MaxGen
  /\ \E result \in {importSessions(Store, medium, generated, sessions,
                                    replaceExisting, skipDuplicates)} :
       /\ Called(IF replaceExisting THEN "importReplace"
                 ELSE IF skipDuplicates THEN "importSkip" ELSE "importKeep",
                 result, <<>>, result.warned)
       /\ generated' = result.generated

ImportSessions ==
  \E sessions \in Batches, replaceExisting \in BOOLEAN, skipDuplicates \in BOOLEAN :
    Import(sessions, replaceExisting, skipDuplicates)

ClearAllData ==
  \E result \in {clearAllData(Store, medium)} :
    /\ Called("clear", result, <<>>, FALSE)
    /\ generated' = generated

\* migrateLegacyData called on its own
MigrateLegacyData ==
  \E result \in {migrateLegacyData(Store)} :
    /\ Called("migrate", result, result.returned, FALSE)
    /\ generated' = generated

\* an edit from outside the application: one element of the sessions array of an
\* envelope the store wrote is overwritten, the metadata stay as written
EditPool == {Edited, ParsedSession(Negative)}

EditOutOfBand ==
  /\ envelope.kind = "data"
  /\ ~edited
  /\ \E i \in 1..Len(envelope.sessions), stored \in EditPool :
       /\ stored # envelope.sessions[i]
       /\ envelope' = [envelope EXCEPT !.sessions[i] = stored]
  /\ edited' = TRUE
  /\ op' = "edit"
  /\ returned' = <<>>
  /\ thrown' = "none"
  /\ warned' = FALSE
  /\ UNCHANGED <<legacy, medium, generated, timer>>

\* the medium fills up, is blocked, or recovers
MediumChanges ==
  /\ medium' \in Media \ {medium}
  /\ op' = "medium"
  /\ returned' = <<>>
  /\ thrown' = "none"
  /\ warned' = FALSE
  /\ UNCHANGED <<envelope, legacy, generated, edited, timer>>

\* the medium starts to reject the envelope with an error that is no QuotaExceededError
WriteFails ==
  /\ medium # "failing"
  /\ medium' = "failing"
  /\ op' = "medium"
  /\ returned' = <<>>
  /\ thrown' = "none"
  /\ warned' = FALSE
  /\ UNCHANGED <<envelope, legacy, generated, edited, timer>>

Next ==
  \/ SaveSessions
  \/ LoadSessions
  \/ AddSession
  \/ ClearAllData
  \/ MigrateLegacyData
  \/ EditOutOfBand
  \/ MediumChanges

Spec == Init /\ [][Next]_vars

\* saveSessions alone, on every medium
SaveNext ==
  \/ SaveSessions
  \/ ClearAllData
  \/ MediumChanges
  \/ WriteFails

SaveSpec == Init /\ [][SaveNext]_vars

(***************************************************************************)
(* Properties of the store.  A property about one call is stated over the  *)
(* step the call takes: unprimed variables are the state before the call,  *)
(* primed ones the state after it and the record of the call.              *)
(***************************************************************************)
\* a session for which validateSession(session, row, false) reports no error
ErrorFree(session) == ErrorsOf(validateSession(session, 0, FALSE)) = <<>>
\* the error-free sessions of a stored array, dates rebuilt, in stored order
ErrorFreeOf(stored) == SelectSeq(Revived(stored), ErrorFree)
\* the batches with at least one session that has an error
InvalidBatches == {sessions \in Batches : \E i \in 1..Len(sessions) : ~ErrorFree(sessions[i])}
\* a persisted record with a string id, a subject not empty after trimming, a
\* positive duration, a start time that parses and a boolean completed flag
PersistedValid(stored) ==
  /\ Kind(stored.id) = "str" /\ Payload(stored.id) # <<>>
  /\ Kind(stored.subject) = "str" /\ Trim(Payload(stored.subject)) # <<>>
  /\ Kind(stored.duration) = "num" /\ Payload(stored.duration) > 0
  /\ Kind(stored.startTime) = "str" /\ IsValidDate(ParseDate(Payload(stored.startTime)))
  /\ Kind(stored.completed) = "bool"
\* what the legacy key yields to a migration
LegacyYield == IF legacy.kind = "array" THEN ErrorFreeOf(legacy.sessions) ELSE <<>>

\* C1: saveSessions called with a batch in which some session has an error throws,
\* and the envelope key and the legacy key hold what they held before the call.
C1_SaveAllOrNothing ==
  [][op' = "save" =>
       \A sessions \in InvalidBatches :
         Save(sessions) => (thrown' # "none" /\ envelope' = envelope /\ legacy' = legacy)]_vars

\* C1: a save was rejected for an invalid session while both keys held data
C1_Witness ==
  /\ op = "save" /\ thrown = "invalid"
  /\ envelope.kind = "data" /\ envelope.sessions # <<>>
  /\ legacy.kind = "array"

\* C2: every record of an envelope that the store wrote is valid: string id, subject
\* not empty after trimming, positive duration, parseable start time, boolean
\* completed flag.  (Violated: a session whose duration is Infinity is accepted
\* and its record is written with the duration null.)
C2_NoInvalidPersisted ==
  (envelope.kind = "data" /\ ~edited) =>
    \A i \in 1..Len(envelope.sessions) : PersistedValid(envelope.sessions[i])

\* C3: an envelope the store wrote is self-consistent (sessionCount is the length
\* of the sessions array, dataChecksum the checksum loadSessions recomputes over
\* it), and a load of such an envelope logs no integrity warning.
C3_EnvelopeConsistent ==
  /\ (envelope.kind = "data" /\ ~edited) =>
       /\ envelope.metadata.sessionCount = Len(envelope.sessions)
       /\ envelope.metadata.dataChecksum = generateChecksum(JSONstringify(envelope.sessions))
  /\ (op = "load" /\ ~edited) => ~warned

\* C3: a load of an envelope of MaxSessions sessions that the store wrote
C3_Witness ==
  /\ op = "load" /\ ~edited /\ ~warned
  /\ envelope.kind = "data" /\ Len(envelope.sessions) = MaxSessions
  /\ Len(returned) = MaxSessions

\* C4: a loadSessions right after a saveSessions that accepted its sessions returns
\* those sessions: same length, same order, every field equal.  (Violated: a
\* session whose duration is Infinity is accepted, and the load drops it.)
C4_RoundTrip ==
  [][(op' = "save" /\ thrown' = "none") =>
       \A sessions \in Batches :
         Save(sessions) =>
           loadSessions(StoreOf(envelope', legacy'), medium').returned = sessions]_vars

\* C5: a load that finds no envelope and removes the legacy key leaves the
\* error-free legacy records in the envelope.  (Violated: the key is removed
\* before the envelope is written, and is gone when the write is rejected.)
C5_LegacyDeletedAfterWrite ==
  [][(op' = "load" /\ envelope.kind = "absent" /\ legacy.kind = "array"
        /\ legacy'.kind = "absent" /\ LegacyYield # <<>>) =>
       /\ envelope'.kind = "data"
       /\ envelope'.sessions = ParsedSessions(LegacyYield)]_vars

\* C6: with storage available, the envelope key absent and an error-free record
\* under the legacy key, loadSessions returns the error-free legacy records in
\* stored order and leaves them in the envelope.  (Violated: when the medium
\* rejects the envelope the load returns nothing and the records are gone.)
C6_LoadMigrates ==
  [][(op' = "load" /\ isStorageAvailable(medium) /\ envelope.kind = "absent"
        /\ LegacyYield # <<>>) =>
       /\ returned' = LegacyYield
       /\ envelope'.kind = "data"
       /\ envelope'.sessions = ParsedSessions(LegacyYield)]_vars

\* C7, as amended: loadSessions never throws; with storage available and an
\* envelope that is unparsable or lacks metadata or sessions it returns what the
\* legacy migration yields (nothing when the legacy key is absent or broken);
\* with storage unavailable it returns nothing and leaves both keys alone.
C7_LoadNeverThrows ==
  [][op' = "load" =>
       /\ thrown' = "none"
       /\ (isStorageAvailable(medium) /\ envelope.kind \in MalformedKinds) =>
            returned' = LegacyYield
       /\ ~isStorageAvailable(medium) =>
            (returned' = <<>> /\ envelope' = envelope /\ legacy' = legacy)]_vars

\* C7: a load found a malformed envelope and returned migrated legacy records
C7_Witness ==
  /\ op = "load" /\ thrown = "none"
  /\ envelope.kind \in MalformedKinds
  /\ returned # <<>> /\ legacy = NoLegacy

\* C7, as first stated: whatever the medium, a load that finds a malformed
\* envelope returns what the legacy migration yields.
C7_Original ==
  [][(op' = "load" /\ envelope.kind \in MalformedKinds) =>
       (thrown' = "none" /\ returned' = LegacyYield)]_vars

\* C8, as amended: with storage available, a load of an envelope whose sessions
\* array was changed outside the application logs the integrity warning exactly
\* when the checksum of the changed array differs from the one written, and
\* returns the error-free sessions of the changed array without throwing.
C8_ChecksumSensitivity ==
  [][(op' = "load" /\ isStorageAvailable(medium) /\ envelope.kind = "data" /\ edited) =>
       /\ warned' = (generateChecksum(JSONstringify(envelope.sessions))
                      # envelope.metadata.dataChecksum)
       /\ returned' = ErrorFreeOf(envelope.sessions)
       /\ thrown' = "none"]_vars

\* C8: a load of a changed envelope logged the warning and returned sessions
C8_Witness ==
  /\ op = "load" /\ edited /\ warned
  /\ envelope.kind = "data" /\ returned # <<>>

\* C8, as first stated: a load of an envelope whose sessions array was changed
\* outside the application logs the integrity warning and returns the changed array.
C8_Original ==
  [][(op' = "load" /\ envelope.kind = "data" /\ edited) =>
       (warned' /\ returned' = Revived(envelope.sessions))]_vars

\* C9, as amended: with storage available and a well-formed envelope, loadSessions
\* returns the stored sessions that have no error, in stored order, and leaves the
\* envelope key and the legacy key as they were.
C9_LoadFilters ==
  [][(op' = "load" /\ isStorageAvailable(medium) /\ envelope.kind = "data") =>
       /\ returned' = ErrorFreeOf(envelope.sessions)
       /\ envelope' = envelope
       /\ legacy' = legacy]_vars

\* C9: a load dropped a record that is still under the envelope key
C9_Witness ==
  /\ op = "load" /\ envelope.kind = "data"
  /\ returned # <<>> /\ Len(returned) < Len(envelope.sessions)

\* C9, as first stated: whatever the medium, a load of a well-formed envelope
\* returns its error-free sessions and leaves both keys as they were.
C9_Original ==
  [][(op' = "load" /\ envelope.kind = "data") =>
       /\ returned' = ErrorFreeOf(envelope.sessions)
       /\ envelope' = envelope
       /\ legacy' = legacy]_vars

\* C10: migrateLegacyData never throws; it returns nothing when the legacy key is
\* absent, unparsable, no array or an array of invalid records only; and called
\* with the legacy key absent it changes neither key.
C10_MigrationTotal ==
  [][op' = "migrate" =>
       /\ thrown' = "none"
       /\ returned' = LegacyYield
       /\ legacy.kind # "array" => returned' = <<>>
       /\ legacy.kind = "absent" => (envelope' = envelope /\ legacy' = legacy)]_vars

\* C10: a migration ran with nothing left to migrate, beside a written envelope
C10_Witness ==
  /\ op = "migrate" /\ thrown = "none"
  /\ legacy = NoLegacy /\ returned = <<>>
  /\ envelope.kind = "data"

\* the batches in which no session has an error
ValidBatches == Batches \ InvalidBatches

\* C11: saveSessions of a valid batch on a medium that rejects the envelope for its
\* size throws the quota error and leaves both keys as they were; and saveSessions
\* throws the quota error in no other case (invalid batch, storage unavailable,
\* a write that fails with another error).
C11_QuotaErrorDistinct ==
  [][op' = "save" =>
       \A sessions \in Batches :
         Save(sessions) =>
           /\ (thrown' = "quota") = (medium = "quota" /\ sessions \in ValidBatches)
           /\ thrown' = "quota" => (envelope' = envelope /\ legacy' = legacy)]_vars

\* C11: a save was rejected for quota while the envelope held sessions
C11_Witness ==
  /\ op = "save" /\ thrown = "quota" /\ medium = "quota"
  /\ envelope.kind = "data" /\ envelope.sessions # <<>>

\* ---------------------------------------------------------------------------
\* validateSession on its own: the candidate records it is given

IdPool == {Str(<<97>>), Undefined, Num(7)}
SubjectPool == {Str(<<65, 97>>), Str(<<32, 32>>), Undefined}
DurationPool == {Num(25), Num(0), Num(-5), NaN, Infinity, Str(<<50, 53>>), Undefined}
StartTimePool == {DateOf(61000), InvalidDate}
EndTimePool == {Undefined, DateOf(1000), DateOf(61000), DateOf(3061000), InvalidDate}
CompletedPool == {Bool(TRUE), Str(<<116, 114, 117, 101>>)}

\* the candidates differ from a valid record in duration and times, or in the
\* other fields
Candidates ==
  {Session(Str(<<97>>), Str(<<65, 97>>), duration, startTime, endTime, Bool(TRUE)) :
     duration \in DurationPool, startTime \in StartTimePool, endTime \in EndTimePool}
  \cup
  {Session(id, subject, Num(25), DateOf(61000), Undefined, completed) :
     id \in IdPool, subject \in SubjectPool, completed \in CompletedPool}

\* rowIndex of validateSession; 0 stands for undefined
RowIndexes == {0, 2}

\* one call of validateSession: the store is not touched; the record of the call
\* holds the arguments beside the issues returned
Validate(session, rowIndex, allowMissingId) ==
  /\ op' = "validate"
  /\ returned' = [session |-> session, rowIndex |-> rowIndex,
                  allowMissingId |-> allowMissingId,
                  issues |-> validateSession(session, rowIndex, allowMissingId)]
  /\ thrown' = "none"
  /\ warned' = FALSE
  /\ UNCHANGED <<envelope, legacy, medium, generated, edited, timer>>

ValidateSession ==
  \E session \in Candidates, rowIndex \in RowIndexes, allowMissingId \in BOOLEAN :
    Validate(session, rowIndex, allowMissingId)

\* saveSessions of one candidate record
SaveCandidate ==
  \E session \in Candidates :
    \E result \in {saveSessions(Store, medium, <<session>>)} :
      /\ Called("save", result, [session |-> session], FALSE)
      /\ generated' = generated

ValidateInit ==
  /\ envelope = NoEnvelope
  /\ legacy = NoLegacy
  /\ medium = "ok"
  /\ generated = 0
  /\ op = "init"
  /\ returned = <<>>
  /\ thrown = "none"
  /\ warned = FALSE
  /\ edited = FALSE
  /\ TimerIdle

ValidateNext ==
  \/ ValidateSession
  \/ SaveCandidate

ValidateSpec == ValidateInit /\ [][ValidateNext]_vars

\* a finite number greater than zero
FinitePositive(x) == Kind(x) = "num" /\ Payload(x) > 0

HasIssue(issues, type, column) ==
  \E i \in 1..Len(issues) : issues[i].type = type /\ issues[i].column = column

\* C12: validateSession reports an error on column duration exactly for the
\* candidates whose duration is not a finite number greater than zero, and
\* saveSessions rejects every record with such a duration.
C12_DurationChecked ==
  /\ op = "validate" =>
       (HasIssue(returned.issues, "error", "duration")
          <=> ~FinitePositive(returned.session.duration))
  /\ op = "save" =>
       (~FinitePositive(returned.session.duration) => thrown = "invalid")

\* C13: for a record whose endTime is a valid date, validateSession reports a
\* warning on column endTime exactly when endTime is strictly earlier than
\* startTime, and never an error on that column; an endTime equal to or later
\* than startTime raises no issue on endTime.
C13_EndTimeWarning ==
  (/\ op = "validate"
   /\ IsValidDate(returned.session.endTime)
   /\ IsValidDate(returned.session.startTime)) =>
    /\ ~HasIssue(returned.issues, "error", "endTime")
    /\ HasIssue(returned.issues, "warning", "endTime")
         <=> Payload(returned.session.endTime) < Payload(returned.session.startTime)

\* ---------------------------------------------------------------------------
\* getSessionStats: the rollups of the completed sessions

\* the sessions of the rollups: started on 1970-01-22 at 09:00, 10:00 (not
\* completed) and 20:00 UTC, and 6, 30 and 40 days before that day
StartedAt(id, day, hour, completed) ==
  Session(Str(<<id>>), Str(<<65, 97>>), Num(25), DateOf(day * MsPerDay + hour * 3600000),
          Undefined, Bool(completed))
Today09 == StartedAt(116, 21, 9, TRUE)
Open10 == StartedAt(111, 21, 10, FALSE)
Later20 == StartedAt(108, 21, 20, TRUE)
Ago6 == StartedAt(115, 15, 9, TRUE)
Ago30 == StartedAt(109, -9, 0, TRUE)
Ago40 == StartedAt(102, -19, 9, TRUE)
RollupPool == {Today09, Open10, Later20, Ago6, Ago30, Ago40}

\* new Date(): 1970-01-22 at 02:00 and at 18:00 UTC
Clock == {21 * MsPerDay + 2 * 3600000, 21 * MsPerDay + 18 * 3600000}

\* addSession of a session of the rollups
AddStarted ==
  \E session \in RollupPool :
    /\ \A i \in 1..Len(envelope.sessions) : envelope.sessions[i] # Parsed(<<session>>)[1]
    /\ Len(envelope.sessions) < MaxRollup
    /\ \E result \in {addSession(Store, medium, session)} :
         /\ Called("add", result, <<>>, result.warned)
         /\ generated' = generated

\* one call of getSessionStats; the record of the call holds the clock beside
\* the counts returned
GetStats(now, offset) ==
  \E result \in {getSessionStats(Store, medium, now, offset)} :
    /\ Called("stats", result,
              [now |-> now, offset |-> offset, stats |-> result.returned],
              result.warned)
    /\ generated' = generated

GetSessionStats == \E now \in Clock, offset \in TimezoneOffsets : GetStats(now, offset)

StatsNext ==
  \/ AddStarted
  \/ GetSessionStats

StatsSpec == ValidateInit /\ [][StatsNext]_vars

\* the local calendar day of an instant, counted from 1970-01-01
LocalDay(t, offset) == (t - offset * 60000) \div MsPerDay

\* the sessions in the envelope, as loadSessions returns them
Held == Revived(envelope.sessions)

\* the number of completed sessions held that started on the local days from..to
StartedWithin(from, to, offset) ==
  Cardinality({i \in 1..Len(Held) :
                 /\ Held[i].completed = Bool(TRUE)
                 /\ LocalDay(Payload(Held[i].startTime), offset) \in from..to})

\* C14: when no session held started later than now, getSessionStats counts
\* the completed sessions only: in daily those started on the local day of
\* now, in weekly those started on that day or one of the 7 local days before
\* it, in monthly those started on that day or one of the 30 days before it.
C14_RollupsAnchored ==
  (/\ op = "stats"
   /\ \A i \in 1..Len(Held) : Payload(Held[i].startTime) <= returned.now) =>
    LET day == LocalDay(returned.now, returned.offset)
    IN returned.stats = [daily |-> StartedWithin(day, day, returned.offset),
                         weekly |-> StartedWithin(day - 7, day, returned.offset),
                         monthly |-> StartedWithin(day - 30, day, returned.offset)]

\* C14: the rollups at 18:00 of sessions completed at 09:00 of that day, 6 days
\* before and 40 days before are 1, 2 and 2
C14_Witness ==
  /\ op = "stats"
  /\ {Held[i] : i \in 1..Len(Held)} = {Today09, Ago6, Ago40}
  /\ returned.now = 21 * MsPerDay + 18 * 3600000
  /\ returned.offset = 0
  /\ returned.stats = [daily |-> 1, weekly |-> 2, monthly |-> 2]

\* C15: daily counts the completed sessions that started between the local
\* midnight of the day of now and now; a session that starts later than now is
\* in none of the three counts.
C15_NotAfterNow ==
  op = "stats" =>
    LET counted == SelectSeq(Held, LAMBDA s : /\ s.completed = Bool(TRUE)
                                              /\ Payload(s.startTime) <= returned.now)
    IN returned.stats = RollupsFrom(counted, LocalMidnight(returned.now, returned.offset))

\* ---------------------------------------------------------------------------
\* getDataStatistics, on the sessions addSession stored

\* longest session array the statistics are taken of
MaxStudied == 13
\* number of sessions at the head of the array that are drawn from MixedPool
MaxMixed == 2

\* sessions that share subjects, completed and not
MixedPool ==
  {Session(Str(<<97>>), Str(<<65, 97>>), Num(25), DateOf(5 * MsPerDay), Undefined, Bool(TRUE)),
   Session(Str(<<98>>), Str(<<65, 97>>), Num(50), DateOf(2 * MsPerDay), Undefined, Bool(FALSE)),
   Session(Str(<<99>>), Str(<<66, 98>>), Num(50), DateOf(9 * MsPerDay), Undefined, Bool(TRUE)),
   Session(Str(<<100>>), Str(<<97, 97>>), Num(40), DateOf(7 * MsPerDay), Undefined, Bool(FALSE))}

\* the k-th session of a subject of its own: the durations 40, 70, 30, 60, 20,
\* 50, 10, 40, ... and the start days are not in order
Studied(k) ==
  Session(Str(<<115>> \o NatText(k)), Str(<<67 + k>>), Num(10 * (((k * 3) % 7) + 1)),
          DateOf(((k * 5) % 11) * MsPerDay + k * 3600000), Undefined, Bool(k % 2 = 0))

\* addSession: the first MaxMixed sessions come from MixedPool, the next ones
\* bring one new subject each
AddStudied ==
  /\ Len(envelope.sessions) < MaxStudied
  /\ \E session \in (IF Len(envelope.sessions) < MaxMixed THEN MixedPool
                      ELSE {Studied(Len(envelope.sessions) - MaxMixed + 1)}) :
       \E result \in {addSession(Store, medium, session)} :
         /\ Called("add", result, <<>>, result.warned)
         /\ generated' = generated

GetDataStatistics ==
  \E result \in {getDataStatistics(Store, medium)} :
    /\ Called("statistics", result, result.returned, result.warned)
    /\ generated' = generated

StatisticsNext ==
  \/ AddStudied
  \/ GetDataStatistics

StatisticsSpec == ValidateInit /\ [][StatisticsNext]_vars

\* the sessions held that have a given subject, and the sum of their durations
OfSubject(subject) == SelectSeq(Held, LAMBDA s : s.subject = subject)
RECURSIVE TimeOf(_)
TimeOf(sessions) ==
  IF sessions = <<>> THEN 0 ELSE Payload(Head(sessions).duration) + TimeOf(Tail(sessions))
Subjects == {Held[i].subject : i \in 1..Len(Held)}

\* C16: getDataStatistics returns the number of sessions held, the number of
\* completed ones, the sum of the durations of the completed ones, the least
\* and the greatest startTime of all sessions, and in topSubjects one entry per
\* subject with the count and the summed duration of all its sessions,
\* completed or not, in descending order of totalTime, the 10 subjects of the
\* greatest totalTime at most.
C16_Statistics ==
  op = "statistics" =>
    LET top == returned.topSubjects
        listed == {top[i].subject : i \in 1..Len(top)}
    IN /\ returned.totalSessions = Len(Held)
       /\ returned.completedSessions
            = Cardinality({i \in 1..Len(Held) : Held[i].completed = Bool(TRUE)})
       /\ returned.totalStudyTime
            = TimeOf(SelectSeq(Held, LAMBDA s : s.completed = Bool(TRUE)))
       /\ Held = <<>> =>
            returned.oldestSession = Undefined /\ returned.newestSession = Undefined
       /\ Held # <<>> =>
            /\ \E i \in 1..Len(Held) : returned.oldestSession = Held[i].startTime
            /\ \E i \in 1..Len(Held) : returned.newestSession = Held[i].startTime
            /\ \A i \in 1..Len(Held) :
                 /\ Payload(returned.oldestSession) <= Payload(Held[i].startTime)
                 /\ Payload(returned.newestSession) >= Payload(Held[i].startTime)
       /\ Len(top) = (IF Cardinality(Subjects) < 10 THEN Cardinality(Subjects) ELSE 10)
       /\ Cardinality(listed) = Len(top)
       /\ listed \subseteq Subjects
       /\ \A i \in 1..Len(top) :
            /\ top[i].count = Len(OfSubject(top[i].subject))
            /\ top[i].totalTime = TimeOf(OfSubject(top[i].subject))
       /\ \A i, j \in 1..Len(top) : i < j => top[i].totalTime >= top[j].totalTime
       /\ \A subject \in Subjects \ listed :
            \A i \in 1..Len(top) : top[i].totalTime >= TimeOf(OfSubject(subject))

\* C16: statistics were taken of more than 10 subjects, one of them with sessions
\* completed and not
C16_Witness ==
  /\ op = "statistics"
  /\ Cardinality(Subjects) > 10
  /\ Len(returned.topSubjects) = 10
  /\ returned.completedSessions < returned.totalSessions
  /\ \E i \in 1..Len(returned.topSubjects) : returned.topSubjects[i].count = 2

\* ---------------------------------------------------------------------------
\* validateCSVFile, on the files of the model

\* one call of validateCSVFile; the record of the call holds the file beside the
\* preview
PreviewOf(file) ==
  \E result \in {validateCSVFile(Store, medium, generated, file)} :
    /\ result.generated <= MaxPreviewGen
    /\ Called("preview", result, [file |-> file, preview |-> result.returned],
              result.warned)
    /\ generated' = result.generated

ValidateCSVFile == \E file \in Files : PreviewOf(file)

PreviewNext == ValidateCSVFile

PreviewSpec == ValidateInit /\ [][PreviewNext]_vars

\* a preview was resolved; the required columns its header lacks; its rows
PreviewDone == op = "preview" /\ thrown = "none"
Missing == {"subject", "duration", "startTime", "completed"} \ returned.file.headers
Rows == returned.file.data

IssuesAt(issues, type, column, row) ==
  Cardinality({i \in 1..Len(issues) : issues[i] = Issue(type, column, row)})

\* C17: when the header lacks required columns, the issues of the preview are
\* one error for each missing column, naming the column and no row; no row is
\* validated, validRows is 0 and there is no candidate; when only duration is
\* missing the issues are exactly one error on column duration.
C17_MissingColumns ==
  (PreviewDone /\ Missing # {}) =>
    LET errors == returned.preview.errors
    IN /\ Len(errors) = Cardinality(Missing)
       /\ \A column \in Missing : IssuesAt(errors, "error", column, 0) = 1
       /\ returned.preview.validRows = 0
       /\ returned.preview.sampleData = <<>>
       /\ returned.preview.generatedIds = 0
       /\ Missing = {"duration"} => errors = <<Issue("error", "duration", 0)>>

\* C17: a preview of two rows under a header without subject and duration
C17_Witness ==
  /\ PreviewDone
  /\ Missing = {"subject", "duration"}
  /\ Len(Rows) = 2
  /\ Len(returned.preview.errors) = 2

\* C17 as stated: a header that lacks required columns gives a single error, no
\* issue of a row, validRows 0 and no candidate.
C17_Original ==
  (PreviewDone /\ Missing # {}) =>
    /\ Len(returned.preview.errors) = 1
    /\ \A i \in 1..Len(returned.preview.errors) : returned.preview.errors[i].row = 0
    /\ returned.preview.validRows = 0
    /\ returned.preview.sampleData = <<>>

\* a row without an id of its own
NoId(row) == "id" \notin DOMAIN row \/ Trim(row["id"]) = <<>>

\* a row that is valid but for its id: a subject, a positive count of minutes,
\* a start time, and an end time or none
ValidText(row) ==
  /\ Trim(row["subject"]) # <<>>
  /\ row["duration"] # <<>> /\ IsDigits(row["duration"]) /\ DigitsValue(row["duration"]) > 0
  /\ IsValidDate(ParseDate(row["startTime"]))
  /\ ("endTime" \notin DOMAIN row \/ row["endTime"] = <<>>
        \/ IsValidDate(ParseDate(row["endTime"])))

\* an id that generateId made: "session_" and more
IsGenerated(id) ==
  /\ Kind(id) = "str" /\ Len(Payload(id)) > 8
  /\ SubSeq(Payload(id), 1, 8) = <<115, 101, 115, 115, 105, 111, 110, 95>>

DistinctIds(sessions) ==
  \A i, j \in 1..Len(sessions) : i # j => sessions[i].id # sessions[j].id

\* C18: when the header has the four required columns and each of the n rows
\* is valid and has a blank id or no id column, generatedIds is n and the
\* preview has n candidates, each with a generated id of its own.
C18_IdsGenerated ==
  (/\ PreviewDone /\ Missing = {}
   /\ \A i \in 1..Len(Rows) : NoId(Rows[i]) /\ ValidText(Rows[i])) =>
    /\ returned.preview.generatedIds = Len(Rows)
    /\ returned.preview.validRows = Len(Rows)
    /\ Len(returned.preview.sampleData) = Len(Rows)
    /\ \A i \in 1..Len(Rows) : IsGenerated(returned.preview.sampleData[i].id)
    /\ DistinctIds(returned.preview.sampleData)

\* C18: a preview of three valid rows under a header without id
C18_Witness ==
  /\ PreviewDone /\ Missing = {}
  /\ "id" \notin returned.file.headers
  /\ Len(Rows) = 3
  /\ \A i \in 1..Len(Rows) : ValidText(Rows[i])
  /\ returned.preview.generatedIds = 3
  /\ returned.preview.validRows = 3

\* the row has an id that an earlier row of the file has too
Reused(i) ==
  /\ ~NoId(Rows[i])
  /\ \E j \in 1..(i - 1) : ~NoId(Rows[j]) /\ Trim(Rows[j]["id"]) = Trim(Rows[i]["id"])

\* the number of valid rows among the first i
ValidUpTo(i) == Cardinality({j \in 1..i : ValidText(Rows[j])})

\* C19: the candidates of a preview have pairwise distinct ids; a row whose id
\* an earlier row of the file has gets no error on column id and exactly one
\* warning on column id, and when it is valid its candidate has a generated
\* id; a row whose id is new gets no issue on column id.
C19_DistinctIds ==
  (PreviewDone /\ Missing = {}) =>
    /\ DistinctIds(returned.preview.sampleData)
    /\ \A i \in 1..Len(Rows) :
         /\ IssuesAt(returned.preview.errors, "error", "id", i + 1) = 0
         /\ IssuesAt(returned.preview.errors, "warning", "id", i + 1)
              = (IF Reused(i) THEN 1 ELSE 0)
         /\ (Reused(i) /\ ValidText(Rows[i])) =>
              IsGenerated(returned.preview.sampleData[ValidUpTo(i)].id)

\* C19: a preview in which a valid row has the id of an earlier row that was
\* rejected, and another valid row has that id again
C19_Witness ==
  /\ PreviewDone /\ Missing = {}
  /\ Len(Rows) = 3
  /\ ~ValidText(Rows[1]) /\ ~NoId(Rows[1])
  /\ Reused(2) /\ ValidText(Rows[2])
  /\ Reused(3) /\ ValidText(Rows[3])
  /\ Len(returned.preview.sampleData) = 2
  /\ returned.preview.generatedIds = 2

\* validation of the coerced row finds no error
RowAccepted(row) ==
  ErrorsOf(validateSession(Coerced(row, <<120>>), 0, TRUE)) = <<>>

\* a text of small letters only
Letters(text) == text # <<>> /\ \A i \in 1..Len(text) : text[i] \in 97..122

MaxCompared == 2

\* a completed session of 25 minutes
Studying(id, subject, startTime) ==
  Session(Str(<<id>>), Str(subject), Num(25), DateOf(startTime), Undefined, Bool(TRUE))

\* the sessions held: "Aa" at 00:10:00, " aA " at 00:20:00, "Bb" at 00:10:00
ExistingPool ==
  {Studying(101, <<65, 97>>, 600000),
   Studying(102, <<32, 97, 65, 32>>, 1200000),
   Studying(103, <<66, 98>>, 600000)}

\* the candidates: "Aa" 30, 60 and 90 seconds after 00:10:00 and 59.999
\* seconds before it, "aa " 30 seconds after 00:20:00, "Cc" at 00:10:00
NewPool ==
  {Studying(110, <<65, 97>>, 630000),
   Studying(111, <<65, 97>>, 660000),
   Studying(112, <<65, 97>>, 690000),
   Studying(113, <<65, 97>>, 540001),
   Studying(114, <<97, 97, 32>>, 1230000),
   Studying(115, <<67, 99>>, 600000)}

\* one call of findDuplicates; the record of the call holds the arguments
\* beside the matches returned
Compare(newSessions, existingSessions) ==
  /\ op' = "duplicates"
  /\ returned' = [newSessions |-> newSessions, existingSessions |-> existingSessions,
                  duplicates |-> findDuplicates(newSessions, existingSessions)]
  /\ thrown' = "none"
  /\ warned' = FALSE
  /\ UNCHANGED <<envelope, legacy, medium, generated, edited, timer>>

FindDuplicates ==
  \E newSessions \in SeqsUpTo(NewPool, MaxCompared),
     existingSessions \in SeqsUpTo(ExistingPool, MaxCompared) :
    Compare(newSessions, existingSessions)

DuplicatesNext == FindDuplicates

DuplicatesSpec == ValidateInit /\ [][DuplicatesNext]_vars

\* a subject folded: small letters, no white space around it
Folded(subject) == Trim(ToLowerCase(Payload(subject)))

\* the start times are less than 60 seconds apart
Near(a, b) ==
  /\ Payload(a.startTime) - Payload(b.startTime) < 60000
  /\ Payload(b.startTime) - Payload(a.startTime) < 60000

Matches(existing, candidate) ==
  Folded(existing.subject) = Folded(candidate.subject) /\ Near(existing, candidate)

\* C21: findDuplicates reports a candidate exactly when a session held has the
\* same folded subject and a startTime less than 60 seconds from the
\* candidate's; each such candidate is reported once, in the order of the
\* candidates, with a session held that matches it; candidates are not
\* compared with each other.
C21_DuplicateRule ==
  op = "duplicates" =>
    LET held == returned.existingSessions
        matched == SelectSeq(returned.newSessions,
                             LAMBDA candidate :
                               \E i \in 1..Len(held) : Matches(held[i], candidate))
        duplicates == returned.duplicates
    IN /\ Len(duplicates) = Len(matched)
       /\ \A k \in 1..Len(duplicates) :
            /\ duplicates[k].importedSession = matched[k]
            /\ \E i \in 1..Len(held) : duplicates[k].existingSession = held[i]
            /\ Matches(duplicates[k].existingSession, matched[k])

\* C21: of two candidates 30 and 60 seconds from a session held, the first is
\* reported and the second, although 30 seconds from the first, is not
C21_Witness ==
  /\ op = "duplicates"
  /\ returned.existingSessions = <<Studying(101, <<65, 97>>, 600000)>>
  /\ returned.newSessions
       = <<Studying(110, <<65, 97>>, 630000), Studying(111, <<65, 97>>, 660000)>>
  /\ Len(returned.duplicates) = 1
  /\ returned.duplicates[1].importedSession = Studying(110, <<65, 97>>, 630000)

\* ---------------------------------------------------------------------------
\* validateCSVFile from every state of the two keys

\* the files of at most one data row
ShortFiles == {file \in Files : Len(file.data) <= 1}

PreviewShort == \E file \in ShortFiles : PreviewOf(file)

DiscardNext == PreviewShort

DiscardSpec == Init /\ [][DiscardNext]_vars

\* C22: validateCSVFile leaves the envelope key and the legacy key as they
\* were, whatever they hold and whatever the file.
C22_PreviewReadOnly ==
  [][op' = "preview" => (envelope' = envelope /\ legacy' = legacy)]_vars

\* ---------------------------------------------------------------------------
\* importSessions of the candidates of a preview (handleImport)

\* most sessions held before an import, and after it
MaxHeld == 2
MaxImported == 4
\* most ids generated in one run of imports
MaxImportGen == 2

\* the data lines of the files that are imported: "Aa" 30 seconds after the
\* session held with id "e"; "Cc" with the id "e"; "Aa" 60 seconds after; "Dd"
\* of duration "Infinity"
RowNear ==
  [id |-> <<120>>, subject |-> <<65, 97>>, duration |-> <<50, 53>>,
   startTime |-> toISOString(630000), endTime |-> <<>>,
   completed |-> <<116, 114, 117, 101>>]
RowSameId ==
  [id |-> <<101>>, subject |-> <<67, 99>>, duration |-> <<50, 53>>,
   startTime |-> toISOString(600000), endTime |-> <<>>,
   completed |-> <<116, 114, 117, 101>>]
RowFar ==
  [id |-> <<121>>, subject |-> <<65, 97>>, duration |-> <<50, 53>>,
   startTime |-> toISOString(660000), endTime |-> <<>>,
   completed |-> <<116, 114, 117, 101>>]

RowEndless ==
  [id |-> <<122>>, subject |-> <<68, 100>>,
   duration |-> <<73, 110, 102, 105, 110, 105, 116, 121>>,
   startTime |-> toISOString(1800000), endTime |-> <<>>,
   completed |-> <<116, 114, 117, 101>>]

ImportFiles ==
  {CsvFile(AllColumns, lines) :
     lines \in {<<RowNear, RowSameId>>, <<RowFar, RowNear>>, <<RowSameId, RowFar>>,
                <<RowNear>>, <<RowEndless, RowNear>>}}

\* the sessions the timer completes
HeldPool == {Studying(101, <<65, 97>>, 600000), Studying(103, <<66, 98>>, 600000)}

\* addSession of a session of HeldPool that is not held yet
AddHeld ==
  \E session \in HeldPool :
    /\ Len(envelope.sessions) < MaxHeld
    /\ \A i \in 1..Len(envelope.sessions) : envelope.sessions[i].id # session.id
    /\ \E result \in {addSession(Store, medium, session)} :
         /\ Called("add", result, <<>>, result.warned)
         /\ generated' = generated

\* handleFileSelect: the preview of a file
PreviewImport ==
  \E file \in ImportFiles :
    \E result \in {validateCSVFile(Store, medium, generated, file)} :
      /\ result.generated <= MaxImportGen
      /\ Called("preview", result, [file |-> file, preview |-> result.returned],
                result.warned)
      /\ generated' = result.generated

\* handleImport: importSessions of the candidates of the preview shown
HandleImport ==
  /\ op = "preview" /\ thrown = "none"
  /\ Len(envelope.sessions) + Len(returned.preview.sampleData) <= MaxImported
  /\ \E replaceExisting \in BOOLEAN, skipDuplicates \in BOOLEAN :
       \E result \in {importSessions(Store, medium, generated, returned.preview.sampleData,
                                      replaceExisting, skipDuplicates)} :
         /\ result.generated <= MaxImportGen
         /\ Called(IF replaceExisting THEN "importReplace"
                   ELSE IF skipDuplicates THEN "importSkip" ELSE "importKeep",
                   result, [sessions |-> returned.preview.sampleData], result.warned)
         /\ generated' = result.generated

ImportNext ==
  \/ AddHeld
  \/ PreviewImport
  \/ HandleImport

ImportSpec == ValidateInit /\ [][ImportNext]_vars

\* what loadSessions returns from the keys before and after a step
LoadedBefore == loadSessions(Store, medium).returned
LoadedAfter == loadSessions(StoreOf(envelope', legacy'), medium').returned

\* the candidate matches a session held under the duplicate rule
Matched(held, candidate) == \E i \in 1..Len(held) : Matches(held[i], candidate)

Unmatched(held, sessions) ==
  SelectSeq(sessions, LAMBDA candidate : ~Matched(held, candidate))

\* C23: an import that adds and skips duplicates persists the sessions that
\* loadSessions returned before it, unchanged and in their order, followed by
\* the candidates of the preview that match none of them under the duplicate
\* rule, in the order of the candidates; no candidate that matches is appended.
C23_SkipDuplicates ==
  [][(op' = "importSkip" /\ thrown' = "none") =>
       /\ envelope'.sessions
            = ParsedSessions(LoadedBefore \o Unmatched(LoadedBefore, returned'.sessions))
       /\ returned'.sessions = returned.preview.sampleData]_vars

C23_Witness ==
  /\ op = "importSkip" /\ thrown = "none"
  /\ Len(returned.sessions) = 2 /\ Len(Held) = 2
  /\ Held[1] = Studying(101, <<65, 97>>, 600000)
  /\ Matched(<<Held[1]>>, returned.sessions[2])
  /\ Held[2] = returned.sessions[1]

\* the ids of the sessions
IdsOf(sessions) == {sessions[i].id : i \in 1..Len(sessions)}

\* C24: an import that adds and keeps duplicates persists the sessions that
\* loadSessions returned before it followed by all the candidates of the
\* preview; a candidate whose id is the id of such a session carries a
\* generated id that none of them has and is otherwise unchanged, and every
\* other candidate is unchanged.
C24_KeepDuplicates ==
  [][(op' = "importKeep" /\ thrown' = "none") =>
       LET sessions == returned'.sessions
           existing == LoadedBefore
           persisted == envelope'.sessions
       IN /\ sessions = returned.preview.sampleData
          /\ Len(persisted) = Len(existing) + Len(sessions)
          /\ SubSeq(persisted, 1, Len(existing)) = ParsedSessions(existing)
          /\ \A k \in 1..Len(sessions) :
               LET kept == persisted[Len(existing) + k]
               IN /\ kept.id \notin IdsOf(existing)
                  /\ IF sessions[k].id \in IdsOf(existing)
                     THEN /\ IsGenerated(kept.id)
                          /\ kept = ParsedSession([sessions[k] EXCEPT !.id = kept.id])
                     ELSE kept = ParsedSession(sessions[k])]_vars

C24_Witness ==
  /\ op = "importKeep" /\ thrown = "none"
  /\ Len(Held) = 3
  /\ Held[1] = Studying(101, <<65, 97>>, 600000)
  /\ returned.sessions[1].id = Str(<<120>>) /\ Held[2] = returned.sessions[1]
  /\ returned.sessions[2].id = Str(<<101>>)
  /\ IsGenerated(Held[3].id)
  /\ Held[3].subject = returned.sessions[2].subject

\* ---------------------------------------------------------------------------
\* exportData, and the import of the file exported

\* the sessions added before an export: a timer session, a session that is
\* not completed, one of duration Infinity and one with a padded subject
ExportedPool ==
  {Studying(101, <<65, 97>>, 600000), Running, Endless,
   Studying(102, <<32, 97, 65, 32>>, 1200000)}

\* the options of an export
ExportOptions ==
  [format : {"csv", "json"}, includeIncomplete : BOOLEAN,
   dateRange : {<<>>, <<0, 600000>>}]

AddExported ==
  \E session \in ExportedPool :
    /\ Len(envelope.sessions) < MaxHeld
    /\ \E result \in {addSession(Store, medium, session)} :
         /\ Called("add", result, <<>>, result.warned)
         /\ generated' = generated

\* handleExport
ExportData ==
  \E options \in ExportOptions :
    \E result \in {exportData(Store, medium, options)} :
      /\ Called("export", result, [options |-> options, data |-> result.returned],
                result.warned)
      /\ generated' = generated

\* handleFileSelect of the CSV file just exported
PreviewExported ==
  /\ op = "export" /\ thrown = "none" /\ returned.options.format = "csv"
  /\ \E result \in {validateCSVFile(Store, medium, generated, returned.data)} :
       /\ result.generated <= MaxImportGen
       /\ Called("previewExported", result,
                 [file |-> returned.data, preview |-> result.returned], result.warned)
       /\ generated' = result.generated

\* handleImport() of that preview: replaceExisting = false, skipDuplicates = true
ImportExported ==
  /\ op = "previewExported" /\ thrown = "none"
  /\ \E result \in {importSessions(Store, medium, generated, returned.preview.sampleData,
                                    FALSE, TRUE)} :
       /\ Called("importExported", result, [sessions |-> returned.preview.sampleData],
                 result.warned)
       /\ generated' = result.generated

RoundTripNext ==
  \/ AddExported
  \/ ExportData
  \/ PreviewExported
  \/ ImportExported

RoundTripSpec == ValidateInit /\ [][RoundTripNext]_vars

\* the preview has a candidate for every row and a duplicate for every candidate
AllDuplicates(file, preview) ==
  /\ preview.validRows = Len(file.data)
  /\ Len(preview.sampleData) = Len(file.data)
  /\ Len(preview.duplicates) = Len(preview.sampleData)

\* C25: when a CSV file exported is previewed against the unchanged store and
\* the preview is committed adding and skipping duplicates, every row exported
\* is a candidate, every candidate is reported as a duplicate, and the import
\* is accepted and leaves the persisted sessions as they were.
C25_ExportImportSymmetry ==
  [][/\ op' = "previewExported" => AllDuplicates(returned'.file, returned'.preview)
     /\ op' = "importExported" =>
          thrown' = "none" /\ envelope'.sessions = envelope.sessions]_vars

\* the same for stores whose sessions all have a number as duration
C25_FiniteDurations ==
  [][(\A i \in 1..Len(Held) : Kind(Held[i].duration) = "num") =>
       /\ op' = "previewExported" => AllDuplicates(returned'.file, returned'.preview)
       /\ op' = "importExported" =>
            thrown' = "none" /\ envelope'.sessions = envelope.sessions]_vars

\* ---------------------------------------------------------------------------
\* exportData and getDataStatistics from every state of the two keys

ReadNext ==
  \/ ExportData
  \/ GetDataStatistics

ReadSpec == Init /\ [][ReadNext]_vars

\* C26: exportData and getDataStatistics, whatever the options and the state
\* of storage, leave the envelope key and the legacy key as they were.
C26_ReadsKeepKeys ==
  [][op' \in {"export", "statistics"} => (envelope' = envelope /\ legacy' = legacy)]_vars

\* C27: after every sequence of addSession and importSessions calls, with
\* candidates taken from a preview, no two sessions of the envelope have the
\* same id.
C27_UniqueIds == DistinctIds(envelope.sessions)

\* C28: an addSession that is accepted leaves a store from which loadSessions
\* returns what it returned before the call followed by the session added;
\* an addSession of a session with an error throws and leaves both keys as
\* they were.
C28_AddAppends ==
  [][op' = "add" =>
       /\ thrown' = "none" =>
            \E session \in {s \in SessionPool : ~HasErrors(s)} :
              LoadedAfter = Append(LoadedBefore, session)
       /\ thrown' = "invalid" => (envelope' = envelope /\ legacy' = legacy)]_vars

\* the same for the additions that leave only numbers as durations
C28_FiniteDurations ==
  [][(/\ op' = "add" /\ thrown' = "none"
      /\ \A i \in 1..Len(envelope'.sessions) :
           Kind(envelope'.sessions[i].duration) = "num") =>
       \E session \in {s \in SessionPool : ~HasErrors(s)} :
         LoadedAfter = Append(LoadedBefore, session)]_vars

\* C29: a loadSessions that directly follows a loadSessions returns the same
\* sequence, whatever the state of the two keys.
C29_LoadIdempotent ==
  [][(op = "load" /\ op' = "load") => returned' = returned]_vars

\* ---------------------------------------------------------------------------
\* useTimer: the countdown

storage == <<envelope, legacy, medium, generated, op, returned, thrown, warned, edited>>

start ==
  /\ status' = "running"
  /\ isActive' = TRUE
  /\ UNCHANGED <<timeLeft, storage>>

pause ==
  /\ status' = "paused"
  /\ isActive' = FALSE
  /\ UNCHANGED <<timeLeft, storage>>

reset ==
  /\ status' = "idle"
  /\ isActive' = FALSE
  /\ timeLeft' = initialMinutes * 60
  /\ UNCHANGED storage

complete ==
  /\ status' = "completed"
  /\ isActive' = FALSE
  /\ timeLeft' = 0
  /\ UNCHANGED storage

\* the effect sets an interval when isActive && timeLeft > 0
Scheduled == isActive /\ timeLeft > 0

\* the callback of the interval, one second later
Tick ==
  /\ Scheduled
  /\ IF timeLeft <= 1
       THEN /\ status' = "completed"
            /\ isActive' = FALSE
            /\ timeLeft' = 0
       ELSE /\ timeLeft' = timeLeft - 1
            /\ UNCHANGED <<status, isActive>>
  /\ UNCHANGED storage

TimerNext ==
  \/ start
  \/ pause
  \/ reset
  \/ complete
  \/ Tick

TimerSpec == ValidateInit /\ [][TimerNext]_vars

\* the interval fires as long as it is set
TimerFairSpec == TimerSpec /\ WF_vars(Tick)

\* C30: a running timer is never at 0 with no tick scheduled, and when ticks
\* are fair a running timer is in time completed with timeLeft 0, unless it is
\* paused or reset before.
C30_RunningCompletes ==
  /\ [](status = "running" => (timeLeft > 0 /\ Scheduled))
  /\ (status = "running") ~> ((status = "completed" /\ timeLeft = 0)
                                \/ status \in {"paused", "idle"})

====
